---- MODULE Spec2Model ----
(***************************************************************************)
(* Model of the playlist-formatter ingestion pipeline: the fixed-width     *)
(* line splitter of Serato text exports, the row-to-track parser, the      *)
(* consecutive merge reducer, the total play time and the file readers.    *)
(*                                                                         *)
(* Strings are modelled as tuples of one-character strings, so that        *)
(* trimming, replacing, splitting and searching are computed character by  *)
(* character as the Rust standard library computes them (ASCII only: the   *)
(* byte offsets of str::len and str::split_at are character offsets).     *)
(***************************************************************************)
EXTENDS Integers, Sequences, FiniteSets, TLC

VARIABLES
    \* ---- fixed-width splitter (serato.rs, read_serato_txt_lines) ----
    exp_names,              \* column names the exporter wrote, in order
    exp_gaps,               \* number of spaces the exporter put after each name
    initial_lines,          \* Vec<Vec<String>>: the lines, each split into cells
    column_names,           \* Vec<String>
    column_start_indices,   \* Vec<usize>, reversed once located
    serato_lines,           \* Vec<Vec<String>>: the result being built
    line_no,                \* position of `for line in initial_lines`
    split_pc,               \* position in read_serato_txt_lines
    \* ---- total play time (utils.rs, get_total_playtime) ----
    tracks,                 \* &[Track]: the tracks summed over
    sum,                    \* TimeDelta, in seconds
    track_no,               \* position of `for track in tracks.iter()`
    total_duration,         \* Option<TimeDelta>: the value returned
    total_pc,               \* position in get_total_playtime
    \* ---- row-to-track parser (serato.rs, parse_track_with_time_from_row) ----
    row,                    \* &BTreeMap<String, String>
    start_date,             \* NaiveDate
    track,                  \* Option<Track>: the track returned
    row_pc,                 \* position in parse_track_with_time_from_row
    \* ---- consecutive merge (serato.rs, parse_serato_tracks_from_data;
    \*      rekordbox.rs, read_rekordbox_txt) ----
    dialect,                \* "serato" or "rekordbox"
    data,                   \* &[BTreeMap<String, String>]: the rows
    playlist_date,          \* Option<NaiveDateTime>
    initial_tracks,         \* Vec<Track>: one track per row kept
    deduped_tracks,         \* Vec<Track>: the result being built
    merge_no,               \* position of `for track in initial_tracks`
    merge_pc,               \* position in the function
    \* ---- file readers (playlist.rs, Playlist::new and the readers) ----
    file,                   \* &Path: the stem and the extension of the file name
    content,                \* what the file holds
    lines,                  \* Vec<Vec<String>>: the value of read_txt_lines
    header_map,             \* BTreeMap<String, usize>
    playlist_rows,          \* Vec<BTreeMap<String, String>>
    result,                 \* Result<Playlist>, or the panic the call ended in
    file_pc,                \* the function the call is in
    \* ---- name scan (playlist.rs, extract_datetime_from_name) ----
    name_texts,             \* the dates the name is written with, in order
    name_input,             \* &str: the name
    name_date,              \* Option<NaiveDateTime>: the value returned
    name_pc,                \* position in extract_datetime_from_name
    \* ---- operators of Track (track.rs: Add, AddAssign, PartialEq) ----
    op_self,                \* Track: the track the operator is called on
    op_other,               \* &Track: the other operand of ==
    op_duration,            \* Option<TimeDelta>: the operand of + and +=
    op_result,              \* the track or the bool the operator gives
    op_pc,                  \* which operator was called
    \* ---- FileFormat::from_str (types.rs) ----
    fmt_word,               \* the letters of the input
    fmt_pad,                \* the white space before and after them
    fmt_input,              \* &str: the input
    fmt_result,             \* Result<FileFormat>
    fmt_pc,                 \* position in from_str
    \* ---- Playlist::save_playlist_to_file (playlist.rs) ----
    save_fs,                \* the files and directories on disk, by path
    save_file,              \* self.file: the path the playlist was read from
    save_filepath,          \* Option<String>: the output path that was asked for
    save_overwrite,         \* bool: overwrite_existing
    save_path,              \* PathBuf: the output path
    save_result,            \* Result<()>
    save_pc                 \* position in save_playlist_to_file

splitVars == <<exp_names, exp_gaps, initial_lines, column_names,
               column_start_indices, serato_lines, line_no, split_pc>>

totalVars == <<tracks, sum, track_no, total_duration, total_pc>>

rowVars == <<row, start_date, track, row_pc>>

mergeVars == <<dialect, data, playlist_date, initial_tracks, deduped_tracks,
               merge_no, merge_pc>>

fileVars == <<file, content, lines, header_map, playlist_rows, result, file_pc>>

nameVars == <<name_texts, name_input, name_date, name_pc>>

trackVars == <<op_self, op_other, op_duration, op_result, op_pc>>

formatVars == <<fmt_word, fmt_pad, fmt_input, fmt_result, fmt_pc>>

saveVars == <<save_fs, save_file, save_filepath, save_overwrite, save_path, save_result, save_pc>>

vars == <<splitVars, totalVars, rowVars, mergeVars, fileVars, nameVars, trackVars, formatVars, saveVars>>

None == [none |-> TRUE]
Some(v) == [some |-> v]
IsSome(o) == "some" \in DOMAIN o

(***************************************************************************)
(* The operations are checked one at a time: in the specification of one   *)
(* operation the variables of the others stay as they are here.            *)
(***************************************************************************)
SplitIdle ==
    /\ exp_names = <<>> /\ exp_gaps = <<>> /\ initial_lines = <<>>
    /\ column_names = <<>> /\ column_start_indices = <<>>
    /\ serato_lines = <<>> /\ line_no = 0 /\ split_pc = "idle"

TotalIdle ==
    /\ tracks = <<>> /\ sum = 0 /\ track_no = 0
    /\ total_duration = None /\ total_pc = "idle"

RowIdle ==
    /\ row = <<>> /\ start_date = None /\ track = None /\ row_pc = "idle"

MergeIdle ==
    /\ dialect = "none" /\ data = <<>> /\ playlist_date = None
    /\ initial_tracks = <<>> /\ deduped_tracks = <<>>
    /\ merge_no = 0 /\ merge_pc = "idle"

FileIdle ==
    /\ file = <<>> /\ content = <<>> /\ lines = <<>> /\ header_map = <<>>
    /\ playlist_rows = <<>> /\ result = <<>> /\ file_pc = "idle"

NameIdle ==
    /\ name_texts = <<>> /\ name_input = <<>> /\ name_date = None /\ name_pc = "idle"

TrackIdle ==
    /\ op_self = <<>> /\ op_other = <<>> /\ op_duration = None /\ op_result = <<>> /\ op_pc = "idle"

FormatIdle ==
    /\ fmt_word = <<>> /\ fmt_pad = <<>> /\ fmt_input = <<>> /\ fmt_result = [tag |-> "pending"] /\ fmt_pc = "idle"

SaveIdle ==
    /\ save_fs = <<>> /\ save_file = <<>> /\ save_filepath = None /\ save_overwrite = FALSE
    /\ save_path = <<>> /\ save_result = [tag |-> "pending"] /\ save_pc = "idle"

(***************************************************************************)
(* Bounds of the model.                                                    *)
(***************************************************************************)
MaxGap == 10        \* widest run of spaces between two header names
MaxCols == 3        \* most columns of a generated short header
MaxTracks == 3      \* most tracks handed to get_total_playtime
MaxRows == 3        \* most track rows of a playlist
MaxRecords == 2     \* most track records of a file

(***************************************************************************)
(* String primitives of the Rust standard library.                         *)
(***************************************************************************)
Spaces(n) == [i \in 1..n |-> " "]

\* the literal "     " of header_line.replace("     ", "\t")
TabRun == 5

IsWhitespace(c) == c \in {" ", "\t", "\n", "\r"}

RECURSIVE TrimStart(_)
TrimStart(s) ==
    IF s = <<>> THEN <<>>
    ELSE IF IsWhitespace(Head(s)) THEN TrimStart(Tail(s)) ELSE s

RECURSIVE TrimEnd(_)
TrimEnd(s) ==
    IF s = <<>> THEN <<>>
    ELSE IF IsWhitespace(s[Len(s)]) THEN TrimEnd(SubSeq(s, 1, Len(s) - 1)) ELSE s

\* str::trim
Trim(s) == TrimEnd(TrimStart(s))

\* str::find(&str): offset of the first occurrence, if any
Find(s, pat) ==
    LET at == {i \in 0..(Len(s) - Len(pat)) : SubSeq(s, i + 1, i + Len(pat)) = pat}
    IN  IF at = {} THEN None
        ELSE Some(CHOOSE i \in at : \A j \in at : i <= j)

\* str::replace: the non-overlapping matches of pat, left to right
RECURSIVE Replace(_, _, _)
Replace(s, pat, rep) ==
    LET at == Find(s, pat)
    IN  IF ~IsSome(at) THEN s
        ELSE SubSeq(s, 1, at.some) \o rep
             \o Replace(SubSeq(s, at.some + Len(pat) + 1, Len(s)), pat, rep)

\* str::split(char): one token more than there are delimiters
RECURSIVE Split(_, _)
Split(s, d) ==
    LET at == Find(s, <<d>>)
    IN  IF ~IsSome(at) THEN <<s>>
        ELSE <<SubSeq(s, 1, at.some)>> \o Split(SubSeq(s, at.some + 2, Len(s)), d)

\* chars().all(|c| c == '-'), true of the empty string
AllDashes(s) == \A i \in 1..Len(s) : s[i] = "-"

Reverse(s) == [i \in 1..Len(s) |-> s[Len(s) + 1 - i]]

RECURSIVE Flatten(_)
Flatten(ss) == IF ss = <<>> THEN <<>> ELSE Head(ss) \o Flatten(Tail(ss))

(***************************************************************************)
(* read_serato_txt_lines: column names, column offsets, line splitting.    *)
(***************************************************************************)
\* mutant: keeps the empty tokens between two delimiters
ColumnNamesKeepEmpty(header_line) ==
    LET tokens == Split(Replace(header_line, Spaces(TabRun), <<"\t">>), "\t")
    IN  [i \in 1..Len(tokens) |-> Trim(tokens[i])]

ColumnNames(header_line) ==
    LET tokens == Split(Replace(header_line, Spaces(TabRun), <<"\t">>), "\t")
        kept == SelectSeq(tokens, LAMBDA s : s # <<>>)
    IN  [i \in 1..Len(kept) |-> Trim(kept[i])]

ColumnStartIndices(header_line, names) ==
    LET found == [i \in 1..Len(names) |-> Find(header_line, names[i])]
        kept == SelectSeq(found, IsSome)
    IN  [i \in 1..Len(kept) |-> kept[i].some]

\* the loop `for index in &column_start_indices` over one line
RECURSIVE ExtractItems(_, _, _)
ExtractItems(remaining_line, indices, split_line) ==
    IF indices = <<>> THEN split_line
    ELSE LET index == Head(indices)
         IN  IF index >= Len(remaining_line)
             THEN ExtractItems(remaining_line, Tail(indices), split_line)
             ELSE ExtractItems(SubSeq(remaining_line, 1, index), Tail(indices),
                               Append(split_line,
                                      Trim(SubSeq(remaining_line, index + 1,
                                                  Len(remaining_line)))))

RECURSIVE PadLine(_, _)
PadLine(split_line, n) ==
    IF Len(split_line) < n THEN PadLine(Append(split_line, <<>>), n) ELSE split_line

\* mutant: splits from the leftmost column forward
SplitLineLeftToRight(line, reversed_indices, ncols) ==
    PadLine(ExtractItems(line, Reverse(reversed_indices), <<>>), ncols)

SplitLine(line, reversed_indices, ncols) ==
    PadLine(Reverse(ExtractItems(line, reversed_indices, <<>>)), ncols)

(***************************************************************************)
(* The exports the splitter is run on.                                     *)
(***************************************************************************)
sARTIST == <<"A", "R", "T", "I", "S", "T">>
sTITLE == <<"T", "I", "T", "L", "E">>
sPLAYTIME == <<"P", "L", "A", "Y", "T", "I", "M", "E">>

ShortNames == {<<"a", "b">>, <<"b">>, <<"c", " ", "d">>}

Injective(s) == \A i, j \in 1..Len(s) : s[i] = s[j] => i = j

NameSeqs ==
    {<<sARTIST, sTITLE, sPLAYTIME>>}
    \cup UNION {{ns \in [1..n -> ShortNames] : Injective(ns)} : n \in 1..MaxCols}

GapWidths == {3} \cup (TabRun..MaxGap)

CellValues == {<<>>, <<"x">>, <<"x", " ", "y">>}

\* offset at which the exporter starts column i
RECURSIVE ColumnOffset(_, _, _)
ColumnOffset(names, gaps, i) ==
    IF i = 1 THEN 0
    ELSE ColumnOffset(names, gaps, i - 1) + Len(names[i - 1]) + gaps[i - 1]

PadTo(s, n) == s \o Spaces(n - Len(s))

\* a line of the export: every cell left-aligned at its column's offset
FixedWidthLine(names, gaps, cells) ==
    Flatten([i \in 1..Len(names) |->
                IF i < Len(names)
                THEN PadTo(cells[i], Len(names[i]) + gaps[i])
                ELSE cells[i]])

Divider == <<"-", "-", "-", "-">>

InitSplit ==
    /\ exp_names \in NameSeqs
    /\ exp_gaps \in [1..(Len(exp_names) - 1) -> GapWidths]
    /\ \E cells \in [1..Len(exp_names) -> CellValues], with_data \in BOOLEAN :
         initial_lines =
            << <<Trim(FixedWidthLine(exp_names, exp_gaps, exp_names))>>,
               <<Divider>> >>
            \o (IF with_data
                THEN << <<Trim(FixedWidthLine(exp_names, exp_gaps, cells))>> >>
                ELSE <<>>)
    /\ column_names = <<>>
    /\ column_start_indices = <<>>
    /\ serato_lines = <<>>
    /\ line_no = 1
    /\ split_pc = "names"
    /\ TotalIdle /\ RowIdle /\ MergeIdle /\ FileIdle /\ NameIdle /\ TrackIdle /\ FormatIdle /\ SaveIdle

\* let column_names = header_line.replace(..).split('\t').filter_map(..).collect()
RecoverColumnNames ==
    /\ split_pc = "names"
    /\ column_names' = ColumnNames(initial_lines[1][1])
    /\ split_pc' = "indices"
    /\ UNCHANGED <<exp_names, exp_gaps, initial_lines, column_start_indices,
                   serato_lines, line_no>>
    /\ UNCHANGED <<totalVars, rowVars, mergeVars, fileVars, nameVars, trackVars, formatVars, saveVars>>

\* let mut column_start_indices = ..; column_start_indices.reverse()
LocateColumns ==
    /\ split_pc = "indices"
    /\ column_start_indices' =
          Reverse(ColumnStartIndices(initial_lines[1][1], column_names))
    /\ split_pc' = "lines"
    /\ UNCHANGED <<exp_names, exp_gaps, initial_lines, column_names,
                   serato_lines, line_no>>
    /\ UNCHANGED <<totalVars, rowVars, mergeVars, fileVars, nameVars, trackVars, formatVars, saveVars>>

\* if line[0].chars().all(|c| c == '-') { continue; }
SkipDivider ==
    /\ split_pc = "lines"
    /\ line_no <= Len(initial_lines)
    /\ AllDashes(initial_lines[line_no][1])
    /\ line_no' = line_no + 1
    /\ UNCHANGED <<exp_names, exp_gaps, initial_lines, column_names,
                   column_start_indices, serato_lines, split_pc>>
    /\ UNCHANGED <<totalVars, rowVars, mergeVars, fileVars, nameVars, trackVars, formatVars, saveVars>>

\* the body of `for line in initial_lines` for a line that is no divider
SplitOneLine ==
    /\ split_pc = "lines"
    /\ line_no <= Len(initial_lines)
    /\ ~AllDashes(initial_lines[line_no][1])
    /\ serato_lines' =
          Append(serato_lines,
                 SplitLine(initial_lines[line_no][1], column_start_indices,
                           Len(column_names)))
    /\ line_no' = line_no + 1
    /\ UNCHANGED <<exp_names, exp_gaps, initial_lines, column_names,
                   column_start_indices, split_pc>>
    /\ UNCHANGED <<totalVars, rowVars, mergeVars, fileVars, nameVars, trackVars, formatVars, saveVars>>

\* the loop is over: serato_lines is returned
ReturnSeratoLines ==
    /\ split_pc = "lines"
    /\ line_no > Len(initial_lines)
    /\ split_pc' = "done"
    /\ UNCHANGED <<exp_names, exp_gaps, initial_lines, column_names,
                   column_start_indices, serato_lines, line_no>>
    /\ UNCHANGED <<totalVars, rowVars, mergeVars, fileVars, nameVars, trackVars, formatVars, saveVars>>

NextSplit ==
    \/ RecoverColumnNames
    \/ LocateColumns
    \/ SkipDivider
    \/ SplitOneLine
    \/ ReturnSeratoLines

SpecSplit == InitSplit /\ [][NextSplit]_vars

(***************************************************************************)
(* What a line holds in each column, read off at the offsets at which the  *)
(* exporter started the columns.                                           *)
(***************************************************************************)
Min(a, b) == IF a <= b THEN a ELSE b

ExpectedCell(line, i) ==
    LET from == ColumnOffset(exp_names, exp_gaps, i)
        upto == IF i < Len(exp_names)
                THEN Min(ColumnOffset(exp_names, exp_gaps, i + 1), Len(line))
                ELSE Len(line)
    IN  IF from >= Len(line) THEN <<>> ELSE Trim(SubSeq(line, from + 1, upto))

ExpectedRow(line) == [i \in 1..Len(exp_names) |-> ExpectedCell(line, i)]

GapsAtLeast(n) == \A i \in DOMAIN exp_gaps : exp_gaps[i] >= n

IsDividerLine(k) == AllDashes(initial_lines[k][1])

\* lines of initial_lines that the loop has been through and has split
SplitDone ==
    {k \in 1..Len(initial_lines) : k < line_no /\ ~IsDividerLine(k)}

\* the row of serato_lines that line k of initial_lines was split into
RowOf(k) ==
    serato_lines[k - Cardinality({j \in 1..(k - 1) : IsDividerLine(j)})]

IsArtistTitlePlaytime == exp_names = <<sARTIST, sTITLE, sPLAYTIME>>

\* C8 (as stated): with the header "ARTIST   TITLE   PLAYTIME", three spaces
\* between the names, every split line is returned as its three trimmed
\* values in column order, the third one empty when the line ends before the
\* PLAYTIME offset.
C8_ThreeSpaceHeaderRoundTrip ==
    (IsArtistTitlePlaytime /\ exp_gaps = <<3, 3>>) =>
        \A k \in SplitDone :
            /\ Len(RowOf(k)) = 3
            /\ RowOf(k) = ExpectedRow(initial_lines[k][1])
            /\ (Len(initial_lines[k][1]) <= ColumnOffset(exp_names, exp_gaps, 3)
                  => RowOf(k)[3] = <<>>)

\* C8 (amended): with the names ARTIST, TITLE, PLAYTIME separated by five or
\* more spaces, every split line is returned as its three trimmed values in
\* column order, the third one empty when the line ends before the PLAYTIME
\* offset.
C8_FiveSpaceHeaderRoundTrip ==
    (IsArtistTitlePlaytime /\ GapsAtLeast(TabRun)) =>
        \A k \in SplitDone :
            /\ Len(RowOf(k)) = 3
            /\ RowOf(k) = ExpectedRow(initial_lines[k][1])
            /\ (Len(initial_lines[k][1]) <= ColumnOffset(exp_names, exp_gaps, 3)
                  => RowOf(k)[3] = <<>>)

\* a data line with three values was split into them, and one that ends
\* before PLAYTIME would be split the same way
C8_Witness ==
    /\ IsArtistTitlePlaytime /\ exp_gaps = <<5, 5>>
    /\ split_pc = "done"
    /\ Len(initial_lines) = 3
    /\ 3 \in SplitDone
    /\ RowOf(3) = <<<<"x", " ", "y">>, <<"x">>, <<"x", " ", "y">>>>

\* C9 (as stated): for every header whose columns are separated by five or
\* more spaces and every line that is no divider, the value of column i is at
\* position i of the returned row, the columns the line does not reach being
\* empty.
C9_ShortLineKeepsColumns ==
    GapsAtLeast(TabRun) =>
        \A k \in SplitDone :
            /\ Len(RowOf(k)) = Len(exp_names)
            /\ RowOf(k) = ExpectedRow(initial_lines[k][1])

\* C10: when the names of the header are separated by runs of five or more
\* spaces, the recovered column names are the names the header was written
\* with, in order, none of them empty.
C10_ColumnNamesRecovered ==
    (split_pc # "names" /\ GapsAtLeast(TabRun)) =>
        /\ column_names = exp_names
        /\ \A i \in 1..Len(column_names) : column_names[i] # <<>>

\* three names recovered across a run of 7 and a run of 10 spaces
C10_Witness ==
    /\ split_pc = "done"
    /\ Len(exp_names) = 3
    /\ exp_gaps = <<7, 10>>
    /\ column_names = exp_names

\* the offsets in column order, once they have been computed
ColumnOffsetsFound == Reverse(column_start_indices)

\* C27: for a header whose names are separated by five or more spaces, the
\* offsets are strictly increasing in column order, the offset of a column is
\* where its name begins in the header line, and the header line is split
\* into the column names; also when a name occurs inside an earlier name.
C27_OffsetsAreColumnPositions ==
    (split_pc \notin {"names", "indices"} /\ GapsAtLeast(TabRun)) =>
        /\ Len(ColumnOffsetsFound) = Len(exp_names)
        /\ \A i \in 1..Len(ColumnOffsetsFound) :
              ColumnOffsetsFound[i] = ColumnOffset(exp_names, exp_gaps, i)
        /\ \A i \in 1..(Len(ColumnOffsetsFound) - 1) :
              ColumnOffsetsFound[i] < ColumnOffsetsFound[i + 1]
        /\ 1 \in SplitDone => RowOf(1) = exp_names

(***************************************************************************)
(* Track (track.rs) and the time values of chrono.  A TimeDelta is a       *)
(* number of seconds, a NaiveTime a record of hour, minute and second, a   *)
(* NaiveDate a record of year, month and day.                              *)
(***************************************************************************)
NewWithTime(artist, title, start_time, end_time, play_time) ==
    [artist |-> artist, title |-> title, start_time |-> start_time,
     end_time |-> end_time, play_time |-> play_time]

New(artist, title) == NewWithTime(artist, title, None, None, None)

\* NaiveDateTime::default().date()
DefaultDate == [year |-> 1970, month |-> 1, day |-> 1]

NaiveDateTimeNew(date, time) == [date |-> date, time |-> time]

\* days since 0000-03-01 of the proleptic Gregorian calendar
DayNumber(date) ==
    LET y == IF date.month <= 2 THEN date.year - 1 ELSE date.year
        m == IF date.month <= 2 THEN date.month + 9 ELSE date.month - 3
    IN  365 * y + (y \div 4) - (y \div 100) + (y \div 400)
        + ((153 * m + 2) \div 5) + (date.day - 1)

SecondsOfDay(time) == 3600 * time.hour + 60 * time.minute + time.second

\* NaiveDateTime - NaiveDateTime
DateTimeSub(end, start) ==
    86400 * (DayNumber(end.date) - DayNumber(start.date))
    + SecondsOfDay(end.time) - SecondsOfDay(start.time)

(***************************************************************************)
(* NaiveTime::parse_from_str for the two patterns the parser uses.  A      *)
(* numeric item skips leading white space and takes one or two digits, a   *)
(* literal has to match, a space of the pattern matches any white space,   *)
(* %Z takes the characters up to the next white space without looking at   *)
(* them, and nothing may be left over.  (Seconds of 60, a leap second, are *)
(* not among the strings of the model.)                                    *)
(***************************************************************************)
DigitValue ==
    ("0" :> 0) @@ ("1" :> 1) @@ ("2" :> 2) @@ ("3" :> 3) @@ ("4" :> 4) @@
    ("5" :> 5) @@ ("6" :> 6) @@ ("7" :> 7) @@ ("8" :> 8) @@ ("9" :> 9)

IsDigit(c) == c \in DOMAIN DigitValue

\* one or two digits at the head of s
ScanDigits(s) ==
    IF s = <<>> \/ ~IsDigit(s[1]) THEN None
    ELSE IF Len(s) >= 2 /\ IsDigit(s[2])
         THEN Some([value |-> 10 * DigitValue[s[1]] + DigitValue[s[2]],
                    rest |-> SubSeq(s, 3, Len(s))])
         ELSE Some([value |-> DigitValue[s[1]], rest |-> Tail(s)])

ScanNumber(str) == ScanDigits(TrimStart(str))

\* the literal c after the number n
ThenLiteral(n, c) ==
    IF ~IsSome(n) THEN None
    ELSE IF n.some.rest = <<>> \/ Head(n.some.rest) # c THEN None
         ELSE Some([value |-> n.some.value, rest |-> Tail(n.some.rest)])

\* a number followed by the literal c
ScanNumberThen(str, c) == ThenLiteral(ScanNumber(str), c)

RECURSIVE SkipNonWhitespace(_)
SkipNonWhitespace(s) ==
    IF s = <<>> THEN <<>>
    ELSE IF IsWhitespace(Head(s)) THEN s ELSE SkipNonWhitespace(Tail(s))

\* nothing may be left over, and the parts are those of a time of day
TimeOfDay(hour, minute, second, left) ==
    IF left # <<>> THEN None
    ELSE IF hour > 23 \/ minute > 59 \/ second > 59 THEN None
         ELSE Some([hour |-> hour, minute |-> minute, second |-> second])

\* %S, followed by " %Z" when with_zone
TimeFromSecond(hour, minute, sec, with_zone) ==
    IF ~IsSome(sec) THEN None
    ELSE TimeOfDay(hour, minute, sec.some.value,
                   IF with_zone THEN SkipNonWhitespace(TrimStart(sec.some.rest))
                   ELSE sec.some.rest)

\* %M and the separator
TimeFromMinute(hour, m, with_zone) ==
    IF ~IsSome(m) THEN None
    ELSE TimeFromSecond(hour, m.some.value, ScanNumber(m.some.rest), with_zone)

\* %H and the separator
TimeFromHour(h, sep, with_zone) ==
    IF ~IsSome(h) THEN None
    ELSE TimeFromMinute(h.some.value, ScanNumberThen(h.some.rest, sep), with_zone)

\* "%H<sep>%M<sep>%S", followed by " %Z" when with_zone
ParseTime(str, sep, with_zone) ==
    TimeFromHour(ScanNumberThen(str, sep), sep, with_zone)

\* NaiveTime::parse_from_str(t, "%H.%M.%S %Z").ok()
ParseClockTime(t) == ParseTime(t, ".", TRUE)

\* hours + minutes + seconds
SumOfParts(n) ==
    IF ~IsSome(n) THEN None
    ELSE Some(3600 * n.some.hour + 60 * n.some.minute + n.some.second)

\* NaiveTime::parse_from_str(t, "%H:%M:%S").ok() and the sum of its parts
ParsePlaytime(t) == SumOfParts(ParseTime(t, ":", FALSE))

(***************************************************************************)
(* Rows: BTreeMap<String, String>, a function from the names of the fields *)
(* that are present to their values.                                       *)
(***************************************************************************)
fName == <<"n", "a", "m", "e">>
fArtist == <<"a", "r", "t", "i", "s", "t">>
fStartTime == <<"s", "t", "a", "r", "t", " ", "t", "i", "m", "e">>
fEndTime == <<"e", "n", "d", " ", "t", "i", "m", "e">>
fPlaytime == <<"p", "l", "a", "y", "t", "i", "m", "e">>

Get(map, key) == IF key \in DOMAIN map THEN Some(map[key]) ELSE None

UnwrapOr(o, default) == IF IsSome(o) THEN o.some ELSE default

\* mutant: a cell that does not parse is read as midnight
TimeOfCellOrMidnight(cell) ==
    IF ~IsSome(cell) THEN None
    ELSE IF IsSome(ParseClockTime(cell.some)) THEN ParseClockTime(cell.some)
    ELSE Some([hour |-> 0, minute |-> 0, second |-> 0])

\* and_then(|t| NaiveTime::parse_from_str(t, "%H.%M.%S %Z").ok())
TimeOfCell(cell) == IF IsSome(cell) THEN ParseClockTime(cell.some) ELSE None

\* map(|time| NaiveDateTime::new(start_date, time))
OnDate(date, t) == IF IsSome(t) THEN Some(NaiveDateTimeNew(date, t.some)) ELSE None

RowDateTime(date, map, key) == OnDate(date, TimeOfCell(Get(map, key)))

\* row.get("playtime").map_or_else(|| end - start, |t| parse(t))
RowPlayTime(map, start_time, end_time) ==
    IF IsSome(Get(map, fPlaytime))
    THEN ParsePlaytime(Get(map, fPlaytime).some)
    ELSE IF IsSome(start_time) /\ IsSome(end_time)
         THEN Some(DateTimeSub(end_time.some, start_time.some))
         ELSE None

\* Track::new_with_time(artist, name, start_time, end_time, play_time)
TrackOfRow(map, start_time, end_time) ==
    NewWithTime(UnwrapOr(Get(map, fArtist), <<>>),
                UnwrapOr(Get(map, fName), <<>>),
                start_time, end_time,
                RowPlayTime(map, start_time, end_time))

ParseTrackWithTimeFromRow(date, map) ==
    TrackOfRow(map, RowDateTime(date, map, fStartTime), RowDateTime(date, map, fEndTime))

\* the row holding the fields that are present in fields (name -> Option)
MakeRow(fields) ==
    [k \in {f \in DOMAIN fields : IsSome(fields[f])} |-> fields[k].some]

SessionDates == {DefaultDate, [year |-> 2019, month |-> 1, day |-> 10]}

ArtistCells == {None, Some(<<"A">>)}
NameCells == {None, Some(<<"T">>)}
StartTimeCells == {None, Some(<<"2", "0", ".", "0", "0", ".", "0", "0", " ", "E", "E", "T">>), Some(<<"n", "/", "a">>), Some(<<"2", "5", ".", "0", "0", ".", "0", "0", " ", "E", "E", "T">>)}
EndTimeCells == {None, Some(<<"2", "0", ".", "0", "0", ".", "0", "5", " ", "E", "E", "T">>), Some(<<"1", "9", ".", "5", "9", ".", "5", "8", " ", "E", "E", "T">>), Some(<<>>)}
PlaytimeCells == {None, Some(<<"0", "0", ":", "0", "0", ":", "0", "3">>), Some(<<"0", "0", ":", "0", "0", ":", "0", "0">>), Some(<<>>), Some(<<"3", " ", "m", "i", "n">>)}

InitRow ==
    /\ \E a \in ArtistCells, n \in NameCells, st \in StartTimeCells,
          et \in EndTimeCells, pt \in PlaytimeCells :
         row = MakeRow((fArtist :> a) @@ (fName :> n) @@ (fStartTime :> st)
                       @@ (fEndTime :> et) @@ (fPlaytime :> pt))
    /\ start_date \in SessionDates
    /\ track = None
    /\ row_pc = "parse"
    /\ SplitIdle /\ TotalIdle /\ MergeIdle /\ FileIdle /\ NameIdle /\ TrackIdle /\ FormatIdle /\ SaveIdle

\* parse_track_with_time_from_row(start_date, row)
ParseTrack ==
    /\ row_pc = "parse"
    /\ track' = Some(ParseTrackWithTimeFromRow(start_date, row))
    /\ row_pc' = "done"
    /\ UNCHANGED <<row, start_date>>
    /\ UNCHANGED <<splitVars, totalVars, mergeVars, fileVars, nameVars, trackVars, formatVars, saveVars>>

NextRow == ParseTrack

SpecRow == InitRow /\ [][NextRow]_vars

\* C4 (as stated): the play time of the parsed track is the explicit duration
\* when the playtime field parses; otherwise, the field being absent or not
\* parsing, it is end - start when both times parsed, and None when not.
C4_PlayDurationRule ==
    row_pc = "done" =>
        LET t == track.some
            explicit == IF fPlaytime \in DOMAIN row
                        THEN ParsePlaytime(row[fPlaytime]) ELSE None
        IN  t.play_time =
               IF IsSome(explicit) THEN explicit
               ELSE IF IsSome(t.start_time) /\ IsSome(t.end_time)
                    THEN Some(DateTimeSub(t.end_time.some, t.start_time.some))
                    ELSE None

\* cells that are no time of day and no duration
NoTimeCells == {<<"n", "/", "a">>, <<>>, <<"3", " ", "m", "i", "n">>,
                <<"2", "5", ".", "0", "0", ".", "0", "0", " ", "E", "E", "T">>}

\* the field is in the row and its cell is no time
FailsToParse(field) == field \in DOMAIN row /\ row[field] \in NoTimeCells

\* C14: a row whose start time, end time or playtime cell does not parse still
\* gives a track, and the field of the track is None; the parse of a row
\* returns a track for every row.
C14_UnparsedFieldIsNone ==
    row_pc = "done" =>
        /\ IsSome(track)
        /\ track.some.artist = UnwrapOr(Get(row, fArtist), <<>>)
        /\ track.some.title = UnwrapOr(Get(row, fName), <<>>)
        /\ FailsToParse(fStartTime) => track.some.start_time = None
        /\ FailsToParse(fEndTime) => track.some.end_time = None
        /\ FailsToParse(fPlaytime) => track.some.play_time = None

\* no cell of the three parses, and the track of the row has no time
C14_Witness ==
    /\ row_pc = "done"
    /\ FailsToParse(fStartTime) /\ FailsToParse(fEndTime) /\ FailsToParse(fPlaytime)
    /\ IsSome(track)
    /\ track.some.artist = <<"A">>
    /\ track.some.start_time = None
    /\ track.some.end_time = None
    /\ track.some.play_time = None

\* C28: the play time of a row without an explicit duration field whose start
\* and end times both parse is not negative, also when the end time of day is
\* earlier than the start time of day.
C28_DerivedPlayTimeNotNegative ==
    (/\ row_pc = "done"
     /\ fPlaytime \notin DOMAIN row
     /\ IsSome(track.some.start_time)
     /\ IsSome(track.some.end_time)) =>
        /\ IsSome(track.some.play_time)
        /\ track.some.play_time.some >= 0

(***************************************************************************)
(* get_total_playtime (utils.rs).                                          *)
(***************************************************************************)
\* sum += duration
AddDuration(total, duration) == total + duration

\* mutant: the sum is returned whatever it is
TotalOfSumAlways(total) == Some(total)

\* if sum.is_zero() { None } else { Some(sum) }
TotalOfSum(total) == IF total = 0 THEN None ELSE Some(total)

PlayTimes == {None, Some(0), Some(3), Some(-3)}

TimedTracks == {NewWithTime(<<"A">>, <<"T">>, None, None, pt) : pt \in PlayTimes}

InitTotal ==
    /\ tracks \in UNION {[1..n -> TimedTracks] : n \in 0..MaxTracks}
    /\ sum = 0
    /\ track_no = 1
    /\ total_duration = None
    /\ total_pc = "loop"
    /\ SplitIdle /\ RowIdle /\ MergeIdle /\ FileIdle /\ NameIdle /\ TrackIdle /\ FormatIdle /\ SaveIdle

\* if let Some(duration) = track.play_time { sum += duration; }
AddPlayTime ==
    /\ total_pc = "loop"
    /\ track_no <= Len(tracks)
    /\ IsSome(tracks[track_no].play_time)
    /\ sum' = AddDuration(sum, tracks[track_no].play_time.some)
    /\ track_no' = track_no + 1
    /\ UNCHANGED <<tracks, total_duration, total_pc>>
    /\ UNCHANGED <<splitVars, rowVars, mergeVars, fileVars, nameVars, trackVars, formatVars, saveVars>>

\* a track without play time leaves the sum as it is
SkipUntimedTrack ==
    /\ total_pc = "loop"
    /\ track_no <= Len(tracks)
    /\ ~IsSome(tracks[track_no].play_time)
    /\ track_no' = track_no + 1
    /\ UNCHANGED <<tracks, sum, total_duration, total_pc>>
    /\ UNCHANGED <<splitVars, rowVars, mergeVars, fileVars, nameVars, trackVars, formatVars, saveVars>>

ReturnTotal ==
    /\ total_pc = "loop"
    /\ track_no > Len(tracks)
    /\ total_duration' = TotalOfSum(sum)
    /\ total_pc' = "done"
    /\ UNCHANGED <<tracks, sum, track_no>>
    /\ UNCHANGED <<splitVars, rowVars, mergeVars, fileVars, nameVars, trackVars, formatVars, saveVars>>

NextTotal ==
    \/ AddPlayTime
    \/ SkipUntimedTrack
    \/ ReturnTotal

SpecTotal == InitTotal /\ [][NextTotal]_vars

Timed(ts) == {i \in 1..Len(ts) : IsSome(ts[i].play_time)}

\* the sum of the play times that are present in ts[1..n]
RECURSIVE PresentSum(_, _)
PresentSum(ts, n) ==
    IF n = 0 THEN 0
    ELSE PresentSum(ts, n - 1)
         + (IF IsSome(ts[n].play_time) THEN ts[n].play_time.some ELSE 0)

\* C6: with at least one play time present, also a zero one, the
\* total duration is Some(sum of the present play times).
C6_TotalIsSomeSum ==
    (total_pc = "done" /\ Timed(tracks) # {}) =>
        total_duration = Some(PresentSum(tracks, Len(tracks)))

\* C7: when no track has a play time, and also when there is no track, the
\* total duration is None.
C7_NoPlayTimeNoTotal ==
    (total_pc = "done" /\ Timed(tracks) = {}) => total_duration = None

\* two tracks, neither with a play time
C7_Witness ==
    /\ total_pc = "done"
    /\ Len(tracks) >= 2
    /\ Timed(tracks) = {}
    /\ total_duration = None

(***************************************************************************)
(* Track equality and the addition of an optional duration (track.rs).     *)
(***************************************************************************)
\* mutant: the titles are not compared
TrackEqArtistOnly(a, b) == a.artist = b.artist

\* mutant: the play times are compared as well
TrackEqWithPlayTime(a, b) ==
    a.artist = b.artist /\ a.title = b.title /\ a.play_time = b.play_time

\* impl PartialEq for Track
TrackEq(a, b) == a.artist = b.artist /\ a.title = b.title

\* mutant: the duration replaces the play time
AddAssignOptionOverwrite(t, duration) ==
    IF IsSome(duration) THEN [t EXCEPT !.play_time = duration] ELSE t

\* impl AddAssign<Option<TimeDelta>> for Track
AddAssignOption(t, duration) ==
    IF IsSome(duration)
    THEN IF IsSome(t.play_time)
         THEN [t EXCEPT !.play_time = Some(t.play_time.some + duration.some)]
         ELSE [t EXCEPT !.play_time = duration]
    ELSE t

\* mutant: a missing duration clears the play time
AddOptionDropsNone(t, duration) ==
    IF IsSome(t.play_time) /\ IsSome(duration)
    THEN [t EXCEPT !.play_time = Some(t.play_time.some + duration.some)]
    ELSE [t EXCEPT !.play_time = duration]

\* impl Add<Option<TimeDelta>> for Track
AddOption(t, duration) ==
    LET play_time == IF IsSome(t.play_time)
                     THEN IF IsSome(duration)
                          THEN Some(t.play_time.some + duration.some)
                          ELSE Some(t.play_time.some)
                     ELSE duration
    IN  [artist |-> t.artist, title |-> t.title, start_time |-> t.start_time,
         end_time |-> t.end_time, play_time |-> play_time]

(***************************************************************************)
(* parse_serato_tracks_from_data (serato.rs): one track per row after the  *)
(* first, then the consecutive duplicates merged.                          *)
(***************************************************************************)
\* playlist_date.unwrap_or_default().date()
StartDate(date) == IF IsSome(date) THEN date.some.date ELSE DefaultDate

\* data.iter().skip(1).map(|row| parse_track_with_time_from_row(..)).collect()
InitialTracks(rows, date) ==
    [i \in 1..(IF Len(rows) = 0 THEN 0 ELSE Len(rows) - 1) |->
        ParseTrackWithTimeFromRow(StartDate(date), rows[i + 1])]

\* mutant: any accumulated track that equals the new one counts
SomeTrackIsSame(deduped, t) ==
    \E i \in 1..Len(deduped) : TrackEq(deduped[i], t)

\* if let Some(last_track) = deduped_tracks.last_mut() { if *last_track == track
LastTrackIsSame(deduped, t) ==
    deduped # <<>> /\ TrackEq(deduped[Len(deduped)], t)

\* mutant: the end time of the accumulated track is kept
MergedIntoKeepEnd(last_track, t) == AddAssignOption(last_track, t.play_time)

\* mutant: the play time of the row is left out
MergedIntoKeepPlayTime(last_track, t) == [last_track EXCEPT !.end_time = t.end_time]

\* *last_track += track.play_time; last_track.end_time = track.end_time;
MergedInto(last_track, t) ==
    [AddAssignOption(last_track, t.play_time) EXCEPT !.end_time = t.end_time]

(***************************************************************************)
(* read_rekordbox_txt (rekordbox.rs): the tracks of the rows and           *)
(* Vec::dedup.                                                             *)
(***************************************************************************)
fRekordboxArtist == <<"A", "r", "t", "i", "s", "t">>
fTrackTitle == <<"T", "r", "a", "c", "k", " ", "T", "i", "t", "l", "e">>

\* the filter_map over playlist_rows
RECURSIVE RekordboxTracks(_)
RekordboxTracks(rows) ==
    IF rows = <<>> THEN <<>>
    ELSE LET artist == Get(Head(rows), fRekordboxArtist)
             title == Get(Head(rows), fTrackTitle)
         IN  IF ~IsSome(artist) \/ ~IsSome(title)
             THEN RekordboxTracks(Tail(rows))
             ELSE IF artist.some = <<>> /\ title.some = <<>>
                  THEN RekordboxTracks(Tail(rows))
                  ELSE <<New(artist.some, title.some)>> \o RekordboxTracks(Tail(rows))

\* Vec::dedup: of consecutive equal elements the first is kept
RECURSIVE Dedup(_)
Dedup(ts) ==
    IF Len(ts) <= 1 THEN ts
    ELSE LET rest == Dedup(SubSeq(ts, 1, Len(ts) - 1))
         IN  IF TrackEq(rest[Len(rest)], ts[Len(ts)])
             THEN rest
             ELSE Append(rest, ts[Len(ts)])

(***************************************************************************)
(* The rows the merge is run on.  The rows of one file have the columns of *)
(* its header; a cell without data is the empty string.                    *)
(***************************************************************************)
SeratoHeaders ==
    {{fName, fArtist},
     {fName, fArtist, fStartTime, fEndTime},
     {fName, fArtist, fStartTime, fEndTime, fPlaytime}}

TrackKeys == {<<<<"A">>, <<"T">>>>, <<<<"A">>, <<"U">>>>, <<<<"B">>, <<"T">>>>}

Timings ==
    {[start |-> <<"2", "0", ".", "0", "0", ".", "0", "0", " ", "E", "E", "T">>,
      end |-> <<"2", "0", ".", "0", "0", ".", "0", "5", " ", "E", "E", "T">>,
      playtime |-> <<"0", "0", ":", "0", "0", ":", "0", "3">>],
     [start |-> <<>>,
      end |-> <<"2", "0", ".", "0", "0", ".", "0", "9", " ", "E", "E", "T">>,
      playtime |-> <<>>],
     [start |-> <<"2", "0", ".", "0", "0", ".", "0", "0", " ", "E", "E", "T">>,
      end |-> <<"2", "0", ".", "0", "0", ".", "0", "9", " ", "E", "E", "T">>,
      playtime |-> <<"0", "0", ":", "0", "0", ":", "0", "0">>],
     [start |-> <<"2", "0", ".", "0", "0", ".", "0", "5", " ", "E", "E", "T">>,
      end |-> <<>>,
      playtime |-> <<"0", "0", ":", "0", "0", ":", "0", "3">>]}

SeratoRows(header) ==
    {[f \in header |-> IF f = fArtist THEN key[1]
                       ELSE IF f = fName THEN key[2]
                       ELSE IF f = fStartTime THEN timing.start
                       ELSE IF f = fEndTime THEN timing.end
                       ELSE timing.playtime] :
        key \in TrackKeys, timing \in Timings}

\* the first row of a Serato export: the name and the start of the session
SessionRow(header) ==
    [f \in header |-> IF f = fName THEN <<"G", "i", "g">>
                      ELSE IF f = fStartTime THEN <<"1", "0", ".", "0", "1", ".", "2", "0", "1", "9", ",", " ", "2", "0", ".", "0", "0", ".", "0", "0", " ", "E", "E", "T">>
                      ELSE <<>>]

SessionStart ==
    NaiveDateTimeNew([year |-> 2019, month |-> 1, day |-> 10],
                     [hour |-> 20, minute |-> 0, second |-> 0])

RekordboxRowSet ==
    {(fRekordboxArtist :> a) @@ (fTrackTitle :> t) @@ (<<"#">> :> <<"1">>) :
        a \in {<<>>, <<"A">>, <<"B">>}, t \in {<<>>, <<"T">>}}

InitMerge ==
    /\ \/ /\ dialect = "serato"
          /\ \E header \in SeratoHeaders, n \in 0..MaxRows :
               \E rows \in [1..n -> SeratoRows(header)] :
                  data = <<SessionRow(header)>> \o rows
          /\ playlist_date \in {None, Some(SessionStart)}
       \/ /\ dialect = "rekordbox"
          /\ data \in UNION {[1..n -> RekordboxRowSet] : n \in 0..MaxRows}
          /\ playlist_date = None
    /\ initial_tracks = <<>>
    /\ deduped_tracks = <<>>
    /\ merge_no = 1
    /\ merge_pc = "rows"
    /\ SplitIdle /\ TotalIdle /\ RowIdle /\ FileIdle /\ NameIdle /\ TrackIdle /\ FormatIdle /\ SaveIdle

\* let initial_tracks: Vec<Track> = data.iter().skip(1).map(..).collect();
ParseInitialTracks ==
    /\ dialect = "serato"
    /\ merge_pc = "rows"
    /\ initial_tracks' = InitialTracks(data, playlist_date)
    /\ merge_pc' = "merge"
    /\ UNCHANGED <<dialect, data, playlist_date, deduped_tracks, merge_no>>
    /\ UNCHANGED <<splitVars, totalVars, rowVars, fileVars, nameVars, trackVars, formatVars, saveVars>>

\* the track equals the last accumulated one and is merged into it
MergeIntoLast ==
    /\ dialect = "serato"
    /\ merge_pc = "merge"
    /\ merge_no <= Len(initial_tracks)
    /\ LastTrackIsSame(deduped_tracks, initial_tracks[merge_no])
    /\ deduped_tracks' =
          [deduped_tracks EXCEPT ![Len(deduped_tracks)] =
              MergedInto(deduped_tracks[Len(deduped_tracks)],
                         initial_tracks[merge_no])]
    /\ merge_no' = merge_no + 1
    /\ UNCHANGED <<dialect, data, playlist_date, initial_tracks, merge_pc>>
    /\ UNCHANGED <<splitVars, totalVars, rowVars, fileVars, nameVars, trackVars, formatVars, saveVars>>

\* deduped_tracks.push(track)
PushTrack ==
    /\ dialect = "serato"
    /\ merge_pc = "merge"
    /\ merge_no <= Len(initial_tracks)
    /\ ~LastTrackIsSame(deduped_tracks, initial_tracks[merge_no])
    /\ deduped_tracks' = Append(deduped_tracks, initial_tracks[merge_no])
    /\ merge_no' = merge_no + 1
    /\ UNCHANGED <<dialect, data, playlist_date, initial_tracks, merge_pc>>
    /\ UNCHANGED <<splitVars, totalVars, rowVars, fileVars, nameVars, trackVars, formatVars, saveVars>>

\* the loop is over: deduped_tracks is returned
ReturnDedupedTracks ==
    /\ dialect = "serato"
    /\ merge_pc = "merge"
    /\ merge_no > Len(initial_tracks)
    /\ merge_pc' = "done"
    /\ UNCHANGED <<dialect, data, playlist_date, initial_tracks, deduped_tracks,
                   merge_no>>
    /\ UNCHANGED <<splitVars, totalVars, rowVars, fileVars, nameVars, trackVars, formatVars, saveVars>>

\* let mut tracks: Vec<Track> = playlist_rows.iter().filter_map(..).collect();
CollectRekordboxTracks ==
    /\ dialect = "rekordbox"
    /\ merge_pc = "rows"
    /\ initial_tracks' = RekordboxTracks(data)
    /\ merge_pc' = "merge"
    /\ UNCHANGED <<dialect, data, playlist_date, deduped_tracks, merge_no>>
    /\ UNCHANGED <<splitVars, totalVars, rowVars, fileVars, nameVars, trackVars, formatVars, saveVars>>

\* tracks.dedup();
DedupRekordboxTracks ==
    /\ dialect = "rekordbox"
    /\ merge_pc = "merge"
    /\ deduped_tracks' = Dedup(initial_tracks)
    /\ merge_pc' = "done"
    /\ UNCHANGED <<dialect, data, playlist_date, initial_tracks, merge_no>>
    /\ UNCHANGED <<splitVars, totalVars, rowVars, fileVars, nameVars, trackVars, formatVars, saveVars>>

NextMerge ==
    \/ ParseInitialTracks
    \/ MergeIntoLast
    \/ PushTrack
    \/ ReturnDedupedTracks
    \/ CollectRekordboxTracks
    \/ DedupRekordboxTracks

SpecMerge == InitMerge /\ [][NextMerge]_vars

(***************************************************************************)
(* Runs of adjacent rows with the same artist and title.                   *)
(***************************************************************************)
SameKey(a, b) == a.artist = b.artist /\ a.title = b.title

\* rows that equal the row right before them
Repeats(ts) == {i \in 2..Len(ts) : SameKey(ts[i], ts[i - 1])}

\* first rows of the maximal runs, and the first row of the j-th run
RunStarts(ts) == (1..Len(ts)) \ Repeats(ts)

RunStart(ts, j) ==
    CHOOSE i \in RunStarts(ts) :
        Cardinality({k \in RunStarts(ts) : k <= i}) = j

\* last row of the run that starts at row i
RunEnd(ts, i) ==
    CHOOSE e \in i..Len(ts) :
        /\ \A k \in (i + 1)..e : k \in Repeats(ts)
        /\ (e + 1) \notin Repeats(ts)

\* the sum of the play times present in ts[from..to], None when none is
PresentPlayTime(ts, from, to) ==
    LET timed == {k \in from..to : IsSome(ts[k].play_time)}
    IN  IF timed = {} THEN None
        ELSE Some(PresentSum(ts, to) - PresentSum(ts, from - 1))

KeysOf(ts) == [i \in 1..Len(ts) |-> <<ts[i].artist, ts[i].title>>]

\* a sequence with its immediate repeats removed
RECURSIVE WithoutRepeats(_)
WithoutRepeats(ks) ==
    IF Len(ks) <= 1 THEN ks
    ELSE IF ks[1] = ks[2] THEN WithoutRepeats(Tail(ks))
         ELSE <<ks[1]>> \o WithoutRepeats(Tail(ks))

\* C1: the merge reducer returns one track for each maximal run of adjacent
\* rows with equal artist and title, its play time the sum of the play times
\* present in the run; the output is as much shorter than the input as there
\* are rows equal to the row before them.
C1_MergeSumsRuns ==
    (dialect = "serato" /\ merge_pc = "done") =>
        /\ Len(deduped_tracks) = Len(initial_tracks) - Cardinality(Repeats(initial_tracks))
        /\ \A j \in 1..Cardinality(RunStarts(initial_tracks)) :
              LET from == RunStart(initial_tracks, j)
                  to == RunEnd(initial_tracks, from)
              IN  /\ SameKey(deduped_tracks[j], initial_tracks[from])
                  /\ deduped_tracks[j].play_time =
                        PresentPlayTime(initial_tracks, from, to)

\* a run of two rows with play times 5 and 9, followed by another track
C1_Witness ==
    /\ dialect = "serato" /\ merge_pc = "done"
    /\ Len(initial_tracks) = 3 /\ Len(deduped_tracks) = 2
    /\ SameKey(initial_tracks[1], initial_tracks[2])
    /\ initial_tracks[1].play_time = Some(5)
    /\ initial_tracks[2].play_time = Some(9)
    /\ deduped_tracks[1].play_time = Some(14)

\* the rows of a Rekordbox export, as tracks, none left out
RekordboxRowKeys(rows) ==
    [i \in 1..Len(rows) |-> <<rows[i][fRekordboxArtist], rows[i][fTrackTitle]>>]

NotBlank(key) == ~(key[1] = <<>> /\ key[2] = <<>>)

\* C2 (as stated): the (artist, title) sequence of the output is that of the
\* input rows with only the immediate repeats removed, for the Serato merge
\* and for the Rekordbox dedup alike.
C2_OnlyAdjacentRowsMerge ==
    merge_pc = "done" =>
        KeysOf(deduped_tracks) =
            WithoutRepeats(IF dialect = "serato"
                           THEN KeysOf(InitialTracks(data, playlist_date))
                           ELSE RekordboxRowKeys(data))

\* C2 (amended): the (artist, title) sequence of the output is that of the
\* rows that become tracks with only the immediate repeats removed: for the
\* Serato merge these are all rows after the first, for the Rekordbox dedup
\* the rows whose artist and title are not both empty.
C2_OnlyAdjacentTracksMerge ==
    merge_pc = "done" =>
        KeysOf(deduped_tracks) =
            WithoutRepeats(IF dialect = "serato"
                           THEN KeysOf(InitialTracks(data, playlist_date))
                           ELSE SelectSeq(RekordboxRowKeys(data), NotBlank))

\* two equal tracks with another one between them stay two tracks
C2_Witness ==
    /\ dialect = "serato" /\ merge_pc = "done"
    /\ Len(initial_tracks) = 3 /\ Len(deduped_tracks) = 3
    /\ SameKey(initial_tracks[1], initial_tracks[3])
    /\ ~SameKey(initial_tracks[1], initial_tracks[2])
    /\ SameKey(deduped_tracks[1], deduped_tracks[3])

MergeStep ==
    /\ dialect = "serato"
    /\ merge_pc = "merge"
    /\ merge_no' = merge_no + 1
    /\ Len(deduped_tracks') = Len(deduped_tracks)

\* C20: when a row is merged into the last accumulated track, the end time of
\* that track becomes the end time of the row, absent or not; its artist, its
\* title and its start time stay, and so does every other accumulated track.
C20_MergeFrame ==
    [][MergeStep =>
          /\ deduped_tracks'[Len(deduped_tracks)].end_time
                = initial_tracks[merge_no].end_time
          /\ deduped_tracks'[Len(deduped_tracks)].artist
                = deduped_tracks[Len(deduped_tracks)].artist
          /\ deduped_tracks'[Len(deduped_tracks)].title
                = deduped_tracks[Len(deduped_tracks)].title
          /\ deduped_tracks'[Len(deduped_tracks)].start_time
                = deduped_tracks[Len(deduped_tracks)].start_time
          /\ \A i \in 1..(Len(deduped_tracks) - 1) :
                deduped_tracks'[i] = deduped_tracks[i]]_vars

\* the third row, without an end time, was merged into the second track, which
\* had one: the track has no end time, its start time is the one of the second
\* row and the first track is as it was
C20_Witness ==
    /\ dialect = "serato"
    /\ merge_pc = "merge"
    /\ merge_no = 4
    /\ Len(deduped_tracks) = 2
    /\ IsSome(initial_tracks[2].end_time)
    /\ initial_tracks[3].end_time = None
    /\ deduped_tracks[2].end_time = None
    /\ IsSome(deduped_tracks[2].start_time)
    /\ deduped_tracks[2].start_time = initial_tracks[2].start_time
    /\ deduped_tracks[1] = initial_tracks[1]

(***************************************************************************)
(* extract_datetime_from_name (playlist.rs): a date in the name, looked    *)
(* for with the patterns (\d{1,2})\.(\d{1,2})\.(\d{4}) and                 *)
(* (\d{4})\.(\d{1,2})\.(\d{1,2}).  A search returns the match that starts  *)
(* first; a greedy \d{1,2} takes two digits before it tries one.           *)
(***************************************************************************)
\* s[p..p+n-1] are n digits
DigitsAt(s, p, n) == p + n - 1 <= Len(s) /\ \A i \in p..(p + n - 1) : IsDigit(s[i])

DotAt(s, p) == p <= Len(s) /\ s[p] = "."

RECURSIVE NumberOf(_)
NumberOf(digits) ==
    IF digits = <<>> THEN 0
    ELSE 10 * NumberOf(SubSeq(digits, 1, Len(digits) - 1))
         + DigitValue[digits[Len(digits)]]

\* the widths a pair of \d{1,2} groups is tried with, in order
GreedyWidths == <<<<2, 2>>, <<2, 1>>, <<1, 2>>, <<1, 1>>>>

\* \d{a}\.\d{b}\.\d{c} matches at position p
GroupsMatchAt(s, p, a, b, c) ==
    /\ DigitsAt(s, p, a) /\ DotAt(s, p + a)
    /\ DigitsAt(s, p + a + 1, b) /\ DotAt(s, p + a + b + 1)
    /\ DigitsAt(s, p + a + b + 2, c)

GroupsAt(s, p, a, b, c) ==
    <<NumberOf(SubSeq(s, p, p + a - 1)),
      NumberOf(SubSeq(s, p + a + 1, p + a + b)),
      NumberOf(SubSeq(s, p + a + b + 2, p + a + b + c + 1))>>

\* RE_DD_MM_YYYY.captures(input): the three numbers captured
CapturesDdMmYyyy(s) ==
    LET hits == {p \in 1..Len(s) :
                    \E w \in 1..4 : GroupsMatchAt(s, p, GreedyWidths[w][1],
                                                  GreedyWidths[w][2], 4)}
    IN  IF hits = {} THEN None
        ELSE LET p == CHOOSE q \in hits : \A r \in hits : q <= r
                 w == CHOOSE v \in 1..4 :
                         /\ GroupsMatchAt(s, p, GreedyWidths[v][1], GreedyWidths[v][2], 4)
                         /\ \A u \in 1..(v - 1) :
                               ~GroupsMatchAt(s, p, GreedyWidths[u][1],
                                              GreedyWidths[u][2], 4)
             IN  Some(GroupsAt(s, p, GreedyWidths[w][1], GreedyWidths[w][2], 4))

\* RE_YYYY_MM_DD.captures(input): the three numbers captured
CapturesYyyyMmDd(s) ==
    LET hits == {p \in 1..Len(s) :
                    \E w \in 1..4 : GroupsMatchAt(s, p, 4, GreedyWidths[w][1],
                                                  GreedyWidths[w][2])}
    IN  IF hits = {} THEN None
        ELSE LET p == CHOOSE q \in hits : \A r \in hits : q <= r
                 w == CHOOSE v \in 1..4 :
                         /\ GroupsMatchAt(s, p, 4, GreedyWidths[v][1], GreedyWidths[v][2])
                         /\ \A u \in 1..(v - 1) :
                               ~GroupsMatchAt(s, p, 4, GreedyWidths[u][1],
                                              GreedyWidths[u][2])
             IN  Some(GroupsAt(s, p, 4, GreedyWidths[w][1], GreedyWidths[w][2]))

IsLeapYear(y) == (y % 4 = 0 /\ y % 100 # 0) \/ y % 400 = 0

DaysInMonth(y, m) ==
    IF m = 2 THEN (IF IsLeapYear(y) THEN 29 ELSE 28)
    ELSE IF m \in {4, 6, 9, 11} THEN 30 ELSE 31

\* NaiveDate::from_ymd_opt
FromYmdOpt(y, m, d) ==
    IF m \in 1..12 /\ d >= 1 /\ d <= DaysInMonth(y, m)
    THEN Some([year |-> y, month |-> m, day |-> d])
    ELSE None

Midnight == [hour |-> 0, minute |-> 0, second |-> 0]

\* mutant: the pattern YYYY.M.D is tried first
ExtractDatetimeFromNameYmdFirst(input) ==
    LET dmy == CapturesDdMmYyyy(input)
        ymd == CapturesYyyyMmDd(input)
    IN  IF IsSome(ymd)
        THEN LET date == FromYmdOpt(ymd.some[1], ymd.some[2], ymd.some[3])
             IN  IF IsSome(date) THEN Some(NaiveDateTimeNew(date.some, Midnight))
                 ELSE None
        ELSE IF IsSome(dmy)
             THEN LET date == FromYmdOpt(dmy.some[3], dmy.some[2], dmy.some[1])
                  IN  IF IsSome(date) THEN Some(NaiveDateTimeNew(date.some, Midnight))
                      ELSE None
             ELSE None

\* a date that is no date of the calendar ends the search: the `?` returns
ExtractDatetimeFromName(input) ==
    LET dmy == CapturesDdMmYyyy(input)
        ymd == CapturesYyyyMmDd(input)
    IN  IF IsSome(dmy)
        THEN LET date == FromYmdOpt(dmy.some[3], dmy.some[2], dmy.some[1])
             IN  IF IsSome(date) THEN Some(NaiveDateTimeNew(date.some, Midnight))
                 ELSE None
        ELSE IF IsSome(ymd)
             THEN LET date == FromYmdOpt(ymd.some[1], ymd.some[2], ymd.some[3])
                  IN  IF IsSome(date) THEN Some(NaiveDateTimeNew(date.some, Midnight))
                      ELSE None
             ELSE None

(***************************************************************************)
(* The names extract_datetime_from_name is run on: up to MaxDateTexts      *)
(* dates, written day first or year first, some of them no date of the     *)
(* calendar, with or without words before and after them.                  *)
(***************************************************************************)
MaxDateTexts == 2

DateTexts ==
    {[text |-> <<"1", "0", ".", "0", "1", ".", "2", "0", "1", "9">>,
      pattern |-> "dmy", year |-> 2019, month |-> 1, day |-> 10, valid |-> TRUE],
     [text |-> <<"1", ".", "2", ".", "2", "0", "1", "9">>,
      pattern |-> "dmy", year |-> 2019, month |-> 2, day |-> 1, valid |-> TRUE],
     [text |-> <<"1", "0", ".", "2", "0", ".", "2", "0", "1", "9">>,
      pattern |-> "dmy", year |-> 2019, month |-> 20, day |-> 10, valid |-> FALSE],
     [text |-> <<"3", "0", ".", "0", "2", ".", "2", "0", "1", "9">>,
      pattern |-> "dmy", year |-> 2019, month |-> 2, day |-> 30, valid |-> FALSE],
     [text |-> <<"2", "0", "1", "9", ".", "0", "1", ".", "1", "0">>,
      pattern |-> "ymd", year |-> 2019, month |-> 1, day |-> 10, valid |-> TRUE],
     [text |-> <<"2", "0", "1", "8", ".", "2", ".", "3">>,
      pattern |-> "ymd", year |-> 2018, month |-> 2, day |-> 3, valid |-> TRUE],
     [text |-> <<"2", "0", "1", "9", ".", "2", "0", ".", "1", "0">>,
      pattern |-> "ymd", year |-> 2019, month |-> 20, day |-> 10, valid |-> FALSE]}

sClubNight == <<"C", "l", "u", "b", " ", "N", "i", "g", "h", "t">>

\* the texts with a space between them
RECURSIVE JoinTexts(_)
JoinTexts(texts) ==
    IF texts = <<>> THEN <<>>
    ELSE IF Len(texts) = 1 THEN texts[1].text
    ELSE texts[1].text \o <<" ">> \o JoinTexts(Tail(texts))

InitName ==
    /\ name_texts \in UNION {[1..n -> DateTexts] : n \in 0..MaxDateTexts}
    /\ \E before \in {<<>>, sClubNight \o <<" ">>}, after \in {<<>>, <<" ">> \o sClubNight} :
          name_input = before \o JoinTexts(name_texts) \o after
    /\ name_date = None
    /\ name_pc = "scan"
    /\ SplitIdle /\ TotalIdle /\ RowIdle /\ MergeIdle /\ FileIdle /\ TrackIdle /\ FormatIdle /\ SaveIdle

\* extract_datetime_from_name(input)
ExtractDate ==
    /\ name_pc = "scan"
    /\ name_date' = ExtractDatetimeFromName(name_input)
    /\ name_pc' = "done"
    /\ UNCHANGED <<name_texts, name_input>>
    /\ UNCHANGED <<splitVars, totalVars, rowVars, mergeVars, fileVars, trackVars, formatVars, saveVars>>

NextName == ExtractDate

SpecName == InitName /\ [][NextName]_vars

\* the dates of the name that are written in the pattern, in their order
TextsOf(pattern) == SelectSeq(name_texts, LAMBDA t : t.pattern = pattern)

\* midnight of the day a text names
MidnightOf(t) ==
    [date |-> [year |-> t.year, month |-> t.month, day |-> t.day],
     time |-> [hour |-> 0, minute |-> 0, second |-> 0]]

C17_InvalidDmyFallsThrough ==
    (/\ name_pc = "done"
     /\ TextsOf("dmy") # <<>>
     /\ \A i \in 1..Len(TextsOf("dmy")) : ~TextsOf("dmy")[i].valid
     /\ TextsOf("ymd") # <<>>
     /\ TextsOf("ymd")[1].valid)
        => name_date = Some(MidnightOf(TextsOf("ymd")[1]))

(***************************************************************************)
(* parse_serato_playlist_info (serato.rs): the name and the start of the   *)
(* session, from the first row.                                            *)
(***************************************************************************)
\* up to `width` digits after leading white space, at least one
ScanNumberUpTo(str, width) ==
    LET s == TrimStart(str)
        n == CHOOSE k \in 0..width :
                /\ DigitsAt(s, 1, k)
                /\ (k = width \/ ~DigitsAt(s, 1, k + 1))
    IN  IF n = 0 THEN None
        ELSE Some([value |-> NumberOf(SubSeq(s, 1, n)),
                   rest |-> SubSeq(s, n + 1, Len(s))])

ScanNumberUpToThen(str, width, c) == ThenLiteral(ScanNumberUpTo(str, width), c)

\* the date and the time of day put together, if both are there
DateAndTime(date, time) ==
    IF IsSome(date) /\ IsSome(time)
    THEN Some(NaiveDateTimeNew(date.some, time.some))
    ELSE None

\* %Y, then the literal ",", then %H.%M.%S %Z
SessionStartFromYear(day, month, y) ==
    IF ~IsSome(y) THEN None
    ELSE DateAndTime(FromYmdOpt(y.some.value, month, day), ParseClockTime(y.some.rest))

\* %m, then the literal "."
SessionStartFromMonth(day, m) ==
    IF ~IsSome(m) THEN None
    ELSE SessionStartFromYear(day, m.some.value, ScanNumberUpToThen(m.some.rest, 4, ","))

\* %d, then the literal "."
SessionStartFromDay(d) ==
    IF ~IsSome(d) THEN None
    ELSE SessionStartFromMonth(d.some.value, ScanNumberUpToThen(d.some.rest, 2, "."))

\* NaiveDateTime::parse_from_str(time, "%d.%m.%Y, %H.%M.%S %Z").ok()
ParseSessionStart(str) == SessionStartFromDay(ScanNumberUpToThen(str, 2, "."))

\* data.get("start time").and_then(|time| parse_from_str(time, ..).ok())
SessionStartOf(start) == IF IsSome(start) THEN ParseSessionStart(start.some) ELSE None

\* mutant: a date in the name goes before the start time
PlaylistInfoNameFirst(playlist_name, date) ==
    <<playlist_name,
      IF IsSome(ExtractDatetimeFromName(playlist_name))
      THEN ExtractDatetimeFromName(playlist_name)
      ELSE date>>

\* the date of the name takes the place of a start time that is missing
PlaylistInfo(playlist_name, date) ==
    <<playlist_name,
      IF ~IsSome(date) /\ playlist_name # <<>>
      THEN ExtractDatetimeFromName(playlist_name)
      ELSE date>>

\* <<playlist_name, playlist_date>>
ParseSeratoPlaylistInfo(first_row) ==
    PlaylistInfo(UnwrapOr(Get(first_row, fName), <<>>),
                 SessionStartOf(Get(first_row, fStartTime)))

(***************************************************************************)
(* The file readers: Playlist::new, playlist_format, read_csv, read_txt    *)
(* and read_txt_lines (playlist.rs), read_serato_csv and read_serato_txt   *)
(* (serato.rs), read_rekordbox_txt (rekordbox.rs), read_formatted_csv      *)
(* (formatted.rs).  A call ends in Ok(playlist), in Err(error) or in a     *)
(* panic.                                                                  *)
(***************************************************************************)
Ok(playlist) == [tag |-> "ok", playlist |-> playlist]
Err(message, detail) == [tag |-> "err", message |-> message, detail |-> detail]
Panic(at) == [tag |-> "panic", at |-> at]
Pending == [tag |-> "pending"]

sCsv == <<"c", "s", "v">>
sTxt == <<"t", "x", "t">>
fTitle == <<"t", "i", "t", "l", "e">>
fHash == <<"#">>

\* char::to_lowercase of the letters that occur in the extensions
LowerOf ==
    [c \in {"C", "S", "V", "T", "X", "M", "P", "L"} |->
        CASE c = "C" -> "c" [] c = "S" -> "s" [] c = "V" -> "v"
          [] c = "T" -> "t" [] c = "X" -> "x" [] c = "M" -> "m" [] c = "P" -> "p"
          [] c = "L" -> "l"]

ToLowercase(s) == [i \in 1..Len(s) |-> IF s[i] \in DOMAIN LowerOf THEN LowerOf[s[i]] ELSE s[i]]

\* FileFormat::iter().map(|f| f.to_string()).collect::<Vec<String>>().join(", ")
sSupportedFileTypes == <<"T", "x", "t", ",", " ", "C", "s", "v">>

\* mutant: an extension that is not known is read as text
FileFormatFromStrLenient(input) ==
    LET lowered == Trim(ToLowercase(input))
    IN  IF lowered = sCsv THEN [tag |-> "ok", format |-> "Csv"]
        ELSE [tag |-> "ok", format |-> "Txt"]

\* mutant: the letters are compared as they are written
FileFormatFromStrExact(input) ==
    LET trimmed == Trim(input)
    IN  IF trimmed = sCsv THEN [tag |-> "ok", format |-> "Csv"]
        ELSE IF trimmed = sTxt THEN [tag |-> "ok", format |-> "Txt"]
        ELSE IF trimmed = <<>>
             THEN Err("Can't convert empty string to file format", <<>>)
             ELSE Err("Unsupported file format: '{input}'", <<input>>)

\* FileFormat::from_str; the detail of an error is what its message is filled
\* in with, in order
FileFormatFromStr(input) ==
    LET lowered == Trim(ToLowercase(input))
    IN  IF lowered = sCsv THEN [tag |-> "ok", format |-> "Csv"]
        ELSE IF lowered = sTxt THEN [tag |-> "ok", format |-> "Txt"]
        ELSE IF lowered = <<>>
             THEN Err("Can't convert empty string to file format", <<>>)
             ELSE Err("Unsupported file format: '{input}'", <<input>>)

\* Playlist::playlist_format
PlaylistFormat(path) ==
    IF ~IsSome(path.extension)
    THEN Err("Input file has no file extension: '{}'. Supported file types are: {}",
             <<path.stem, sSupportedFileTypes>>)
    ELSE FileFormatFromStr(path.extension.some)

\* mutant: of two columns with one name the earlier one is kept
HeaderMapFirstWins(headers) ==
    [k \in {headers[i] : i \in 1..Len(headers)} |->
        (CHOOSE i \in 1..Len(headers) :
            /\ headers[i] = k
            /\ \A j \in 1..Len(headers) : headers[j] = k => j >= i) - 1]

\* .enumerate().map(|(index, value)| (value, index)).collect(): of two columns
\* with one name the BTreeMap keeps the later one
HeaderMap(headers) ==
    [k \in {headers[i] : i \in 1..Len(headers)} |->
        (CHOOSE i \in 1..Len(headers) :
            /\ headers[i] = k
            /\ \A j \in 1..Len(headers) : headers[j] = k => j <= i) - 1]

\* items.insert(key, line[*index]) for every (key, index) of header_map
RowOfCells(hm, cells) == [k \in DOMAIN hm |-> cells[hm[k] + 1]]

\* Playlist::map_track_data: the reader yields Err for a record that has not
\* as many fields as the header, and filter_map(|s| s.ok()) drops it
RECURSIVE MapTrackData(_, _, _)
MapTrackData(records, hm, nfields) ==
    IF records = <<>> THEN <<>>
    ELSE IF Len(Head(records)) # nfields
         THEN MapTrackData(Tail(records), hm, nfields)
         ELSE <<RowOfCells(hm, Head(records))>>
              \o MapTrackData(Tail(records), hm, nfields)

\* s.split('\t').map(|l| l.trim().to_string()).collect()
TabCells(line) ==
    LET cells == Split(line, "\t")
    IN  [i \in 1..Len(cells) |-> Trim(cells[i])]

\* the lines that are no divider, each split at the column offsets
RECURSIVE SeratoLines(_, _, _)
SeratoLines(rest_lines, reversed_indices, ncols) ==
    IF rest_lines = <<>> THEN <<>>
    ELSE IF AllDashes(Head(rest_lines)[1])
         THEN SeratoLines(Tail(rest_lines), reversed_indices, ncols)
         ELSE <<SplitLine(Head(rest_lines)[1], reversed_indices, ncols)>>
              \o SeratoLines(Tail(rest_lines), reversed_indices, ncols)

\* Playlist::read_txt_lines: None stands for the panic of initial_lines[1]
ReadTxtLines(dest_lines) ==
    LET cells == [i \in 1..Len(dest_lines) |-> TabCells(dest_lines[i])]
    IN  IF Len(cells) < 2 THEN None
        ELSE IF AllDashes(cells[2][1])
             THEN LET header_line == cells[1][1]
                      names == ColumnNames(header_line)
                      indices == Reverse(ColumnStartIndices(header_line, names))
                  IN  Some(SeratoLines(cells, indices, Len(names)))
             ELSE Some(cells)

\* the sum of the play times that are present
RECURSIVE SumPlayTimes(_)
SumPlayTimes(ts) ==
    IF ts = <<>> THEN 0
    ELSE LET before == SumPlayTimes(SubSeq(ts, 1, Len(ts) - 1))
             last == ts[Len(ts)]
         IN  IF IsSome(last.play_time) THEN AddDuration(before, last.play_time.some)
             ELSE before

\* utils::get_total_playtime
GetTotalPlaytime(ts) == TotalOfSum(SumPlayTimes(ts))

\* the loop of parse_serato_tracks_from_data over initial_tracks
RECURSIVE DedupedTracks(_)
DedupedTracks(initial) ==
    IF initial = <<>> THEN <<>>
    ELSE LET deduped == DedupedTracks(SubSeq(initial, 1, Len(initial) - 1))
             t == initial[Len(initial)]
         IN  IF LastTrackIsSame(deduped, t)
             THEN [deduped EXCEPT ![Len(deduped)] = MergedInto(deduped[Len(deduped)], t)]
             ELSE Append(deduped, t)

ParseSeratoTracksFromData(rows, date) == DedupedTracks(InitialTracks(rows, date))

\* .max().unwrap_or(0)
MaxOrZero(ns) ==
    IF ns = <<>> THEN 0
    ELSE CHOOSE n \in {ns[i] : i \in 1..Len(ns)} : \A i \in 1..Len(ns) : ns[i] <= n

DecimalLen(n) == IF n < 10 THEN 1 ELSE IF n < 100 THEN 2 ELSE IF n < 1000 THEN 3 ELSE 4

\* utils::formatted_duration(duration).chars().count()
FormattedDurationLen(seconds) ==
    IF seconds > 0
    THEN IF seconds \div 60 >= 60
         THEN DecimalLen(seconds \div 3600) + 6
         ELSE DecimalLen(seconds \div 60) + 3
    ELSE 0

\* Playlist::get_max_playtime_length
GetMaxPlaytimeLength(ts) ==
    MaxOrZero([i \in 1..Len(ts) |-> FormattedDurationLen(UnwrapOr(ts[i].play_time, 0))])

MakePlaylist(date, file_format, playlist_name, playlist_type, ts, total) ==
    [date |-> date, file_format |-> file_format, name |-> playlist_name,
     playlist_type |-> playlist_type, tracks |-> ts,
     max_artist_length |-> MaxOrZero([i \in 1..Len(ts) |-> Len(ts[i].artist)]),
     max_title_length |-> MaxOrZero([i \in 1..Len(ts) |-> Len(ts[i].title)]),
     max_playtime_length |-> IF playlist_type = "Rekordbox" THEN 0
                             ELSE GetMaxPlaytimeLength(ts),
     total_duration |-> total]

\* the playlist of a Serato export, with the total of its tracks
SeratoPlaylist(date, file_format, playlist_name, ts) ==
    Ok(MakePlaylist(date, file_format, playlist_name, "Serato", ts, GetTotalPlaytime(ts)))

\* read_serato_csv once the first row is parsed
SeratoCsvPlaylist(rows, info) ==
    SeratoPlaylist(info[2], "Csv", info[1], ParseSeratoTracksFromData(rows, info[2]))

\* serato::read_serato_csv
ReadSeratoCsvResult(rows) ==
    IF rows = <<>> THEN Panic("data[0]")
    ELSE SeratoCsvPlaylist(rows, ParseSeratoPlaylistInfo(rows[1]))

\* the name of the file stands in for an empty name, the date of the name for
\* a missing start time
SeratoTxtNamed(rows, playlist_name, date_of_row) ==
    SeratoPlaylist(IF ~IsSome(date_of_row) THEN ExtractDatetimeFromName(playlist_name)
                   ELSE date_of_row,
                   "Txt", playlist_name,
                   ParseSeratoTracksFromData(rows, date_of_row))

\* read_serato_txt once the first row is parsed
SeratoTxtPlaylist(stem, rows, info) ==
    SeratoTxtNamed(rows, IF info[1] = <<>> THEN stem ELSE info[1], info[2])

\* serato::read_serato_txt
ReadSeratoTxtResult(stem, hm, rows) ==
    IF fArtist \notin DOMAIN hm THEN Err("Serato TXT missing required field", fArtist)
    ELSE IF fName \notin DOMAIN hm THEN Err("Serato TXT missing required field", fName)
    ELSE IF rows = <<>> THEN Panic("playlist_rows[0]")
    ELSE SeratoTxtPlaylist(stem, rows, ParseSeratoPlaylistInfo(rows[1]))

\* mutant: the name is not scanned for a date
ReadRekordboxTxtResultNoDate(stem, hm, rows) ==
    IF fRekordboxArtist \notin DOMAIN hm
    THEN Err("Rekordbox TXT missing required field", fRekordboxArtist)
    ELSE IF fTrackTitle \notin DOMAIN hm
    THEN Err("Rekordbox TXT missing required field", fTrackTitle)
    ELSE Ok(MakePlaylist(None, "Txt", stem, "Rekordbox",
                         Dedup(RekordboxTracks(rows)), None))

\* rekordbox::read_rekordbox_txt
ReadRekordboxTxtResult(stem, hm, rows) ==
    IF fRekordboxArtist \notin DOMAIN hm
    THEN Err("Rekordbox TXT missing required field", fRekordboxArtist)
    ELSE IF fTrackTitle \notin DOMAIN hm
    THEN Err("Rekordbox TXT missing required field", fTrackTitle)
    ELSE Ok(MakePlaylist(ExtractDatetimeFromName(stem), "Txt", stem, "Rekordbox",
                         Dedup(RekordboxTracks(rows)), None))

\* play_time of the closure of formatted::parse_formatted_tracks_from_data
FormattedPlayTime(map, start_time, end_time) ==
    IF IsSome(Get(map, fPlaytime))
    THEN ParsePlaytime(Get(map, fPlaytime).some)
    ELSE IF IsSome(start_time) /\ IsSome(end_time)
         THEN Some(DateTimeSub(end_time.some, start_time.some))
         ELSE None

FormattedTrackTimed(map, start_time, end_time) ==
    NewWithTime(UnwrapOr(Get(map, fArtist), <<>>),
                UnwrapOr(Get(map, fName), <<>>),
                start_time, end_time,
                FormattedPlayTime(map, start_time, end_time))

\* the closure of formatted::parse_formatted_tracks_from_data: one row
FormattedTrack(date, map) ==
    FormattedTrackTimed(map, RowDateTime(date, map, fStartTime),
                        RowDateTime(date, map, fEndTime))

\* formatted::parse_formatted_tracks_from_data, for two rows or more
ParseFormattedTracksFromData(rows, date) ==
    DedupedTracks([i \in 1..(Len(rows) - 1) |-> FormattedTrack(StartDate(date), rows[i + 1])])

FormattedPlaylist(date, playlist_name, ts) ==
    Ok(MakePlaylist(date, "Csv", playlist_name, "Formatted", ts, GetTotalPlaytime(ts)))

\* read_formatted_csv once the first row is parsed
FormattedCsvPlaylist(rows, info) ==
    FormattedPlaylist(info[2], info[1], ParseFormattedTracksFromData(rows, info[2]))

\* formatted::read_formatted_csv
ReadFormattedCsvResult(rows) ==
    IF rows = <<>> THEN Panic("data[0]")
    ELSE IF Len(rows) = 1 THEN Panic("initial_tracks[0]")
    ELSE FormattedCsvPlaylist(rows, ParseSeratoPlaylistInfo(rows[1]))

\* the first of `fields` that is no key of the header map
FirstMissing(hm, fields) ==
    IF \A i \in 1..Len(fields) : fields[i] \in DOMAIN hm THEN None
    ELSE Some(fields[CHOOSE i \in 1..Len(fields) :
                        /\ fields[i] \notin DOMAIN hm
                        /\ \A j \in 1..(i - 1) : fields[j] \in DOMAIN hm])

\* formatted_fields and required_serato_fields of Playlist::read_csv
FormattedFields == <<fArtist, fTitle>>
RequiredSeratoCsvFields == <<fName, fArtist>>

\* the required fields of a Serato CSV, missing or not
SeratoCsvDialect(hm) ==
    IF IsSome(FirstMissing(hm, RequiredSeratoCsvFields))
    THEN Err("Serato CSV missing required field",
             FirstMissing(hm, RequiredSeratoCsvFields).some)
    ELSE [tag |-> "serato"]

\* mutant: the fields of a Serato CSV are looked for first
CsvDialectSeratoFirst(hm) ==
    IF ~IsSome(FirstMissing(hm, RequiredSeratoCsvFields)) THEN [tag |-> "serato"]
    ELSE IF ~IsSome(FirstMissing(hm, FormattedFields)) THEN [tag |-> "formatted"]
    ELSE SeratoCsvDialect(hm)

\* the end of Playlist::read_csv: which reader the header picks
CsvDialect(hm) ==
    IF ~IsSome(FirstMissing(hm, FormattedFields)) THEN [tag |-> "formatted"]
    ELSE SeratoCsvDialect(hm)

\* mutant: the column # is looked for before the column name
TxtDialectHashFirst(hm) ==
    IF fHash \in DOMAIN hm THEN [tag |-> "rekordbox"]
    ELSE IF fName \in DOMAIN hm THEN [tag |-> "serato"]
    ELSE Err("Input file does not seem to be a valid Serato or Rekordbox txt playlist", <<>>)

\* the end of Playlist::read_txt: which reader the header picks
TxtDialect(hm) ==
    IF fName \in DOMAIN hm THEN [tag |-> "serato"]
    ELSE IF fHash \in DOMAIN hm THEN [tag |-> "rekordbox"]
    ELSE Err("Input file does not seem to be a valid Serato or Rekordbox txt playlist", <<>>)

(***************************************************************************)
(* The files the readers are run on.  `exporter` records which program     *)
(* wrote the file; the readers never look at it.                           *)
(***************************************************************************)
sSessionName == <<"G", "i", "g">>
sSessionStart == <<"1", "0", ".", "0", "1", ".", "2", "0", "1", "9", ",", " ", "2", "0", ".", "0", "0", ".", "0", "0", " ", "E", "E", "T">>
sDatedStem == <<"g", "i", "g", " ", "2", "0", "1", "9", ".", "0", "1", ".", "1", "0">>
sPlainStem == <<"s", "e", "t">>

FileKeys == {<<<<"A">>, <<"T">>>>, <<<<"A">>, <<"U">>>>}

FileTimings ==
    {[start |-> <<"2", "0", ".", "0", "0", ".", "0", "0", " ", "E", "E", "T">>, end |-> <<"2", "0", ".", "0", "0", ".", "0", "5", " ", "E", "E", "T">>, playtime |-> <<"0", "0", ":", "0", "0", ":", "0", "3">>],
     [start |-> <<"2", "0", ".", "0", "0", ".", "0", "5", " ", "E", "E", "T">>, end |-> <<"2", "0", ".", "0", "0", ".", "0", "9", " ", "E", "E", "T">>, playtime |-> <<>>]}

SeratoColumns == {<<fName, fArtist>>, <<fName, fArtist, fStartTime, fEndTime, fPlaytime>>}

CellOf(f, key, timing) ==
    IF f = fArtist THEN key[1]
    ELSE IF f \in {fName, fTitle} THEN key[2]
    ELSE IF f = fStartTime THEN timing.start
    ELSE IF f = fEndTime THEN timing.end
    ELSE timing.playtime

\* the records of the tracks, in the order of the columns
TrackRecords(columns) ==
    {[i \in 1..Len(columns) |-> CellOf(columns[i], key, timing)] :
        key \in FileKeys, timing \in FileTimings}

\* the first record of a Serato export
SessionRecord(columns) ==
    [i \in 1..Len(columns) |-> IF columns[i] = fName THEN sSessionName
                               ELSE IF columns[i] = fStartTime THEN sSessionStart
                               ELSE <<>>]

\* the names and the start times a first record is written with: a name with
\* a date in it, no name, a start time that is no time stamp
sDatedName == <<"3", ".", "2", ".", "2", "0", "1", "8">>
SessionNames == {sSessionName, sDatedName, <<>>}
SessionStarts == {sSessionStart, <<"n", "/", "a">>}

\* the first records of a Serato export
SessionRecords(columns) ==
    {[i \in 1..Len(columns) |-> IF columns[i] = fName THEN session_name
                                ELSE IF columns[i] = fStartTime THEN session_start
                                ELSE <<>>] :
        session_name \in SessionNames, session_start \in SessionStarts}

\* the header alone, or the session and up to MaxRecords tracks
SeratoRecordSeqs(columns) ==
    {<<>>} \cup
    UNION {{<<session>> \o rs : session \in SessionRecords(columns),
                                rs \in [1..n -> TrackRecords(columns)]} :
              n \in 0..MaxRecords}

\* the elements of seq at the positions of S, in their order
Pick(seq, S) ==
    LET picked[k \in 0..Len(seq)] ==
            IF k = 0 THEN <<>>
            ELSE IF k \in S THEN Append(picked[k - 1], seq[k]) ELSE picked[k - 1]
    IN  picked[Len(seq)]

\* the headers that hold some of the fields of seq
HeaderChoices(seq) == {Pick(seq, S) : S \in SUBSET (1..Len(seq))}

\* headers in which a column name occurs more than once
DuplicateHeaders ==
    {<<fName, fArtist, fName>>, <<fArtist, fArtist, fName>>,
     <<fArtist, fTitle, fTitle, fArtist>>}

\* one cell per column, each cell the number of its column
NumberedCells(headers) ==
    [i \in 1..Len(headers) |-> <<<<"1">>, <<"2">>, <<"3">>, <<"4">>>>[i]]

CsvFiles ==
    UNION {{[kind |-> "csv", exporter |-> "serato", headers |-> columns,
             records |-> rs] : rs \in SeratoRecordSeqs(columns)} :
              columns \in SeratoColumns}
    \cup {[kind |-> "csv", exporter |-> "serato", headers |-> <<fName, fArtist>>,
           records |-> <<SessionRecord(<<fName, fArtist>>), <<<<"T">>>>, r>>] :
             r \in TrackRecords(<<fName, fArtist>>)}
    \cup {[kind |-> "csv", exporter |-> "formatter", headers |-> <<fArtist, fTitle>>,
           records |-> rs] :
             rs \in UNION {[1..n -> TrackRecords(<<fArtist, fTitle>>)] :
                              n \in 0..MaxRecords}}
    \cup {[kind |-> "csv", exporter |-> "none", headers |-> h, records |-> <<>>] :
             h \in HeaderChoices(<<fName, fArtist, fTitle>>)}
    \cup {[kind |-> "csv", exporter |-> "none", headers |-> h,
           records |-> <<NumberedCells(h), NumberedCells(h)>>] :
             h \in DuplicateHeaders}

\* the width of a column of a Serato text export
SeratoGaps(columns) ==
    [i \in 1..(Len(columns) - 1) |-> IF columns[i] = fStartTime THEN 16 ELSE TabRun]

SeratoTxtLines(columns, records) ==
    [i \in 1..Len(records) |-> FixedWidthLine(columns, SeratoGaps(columns), records[i])]

SeratoTxtFiles ==
    {[kind |-> "txt", exporter |-> "serato",
      lines |-> <<FixedWidthLine(columns, SeratoGaps(columns), columns)>>
                \o (IF with_divider THEN <<Divider>> ELSE <<>>)] :
        columns \in SeratoColumns, with_divider \in BOOLEAN}
    \cup UNION {{[kind |-> "txt", exporter |-> "serato",
                  lines |-> <<FixedWidthLine(columns, SeratoGaps(columns), columns),
                              Divider>>
                            \o SeratoTxtLines(columns, rs)] :
                    rs \in SeratoRecordSeqs(columns) \ {<<>>}} :
                 columns \in SeratoColumns}

sRekordboxHeader == <<"#", "\t", "A", "r", "t", "i", "s", "t", "\t", "T", "r", "a", "c", "k", " ", "T", "i", "t", "l", "e">>

RekordboxLines == {<<"1", "\t", "A", "\t", "T">>, <<"2", "\t", "A", "\t", "U">>, <<"3", "\t", "\t">>, <<>>}

RekordboxTxtFiles ==
    {[kind |-> "txt", exporter |-> "rekordbox", lines |-> <<sRekordboxHeader>> \o ls] :
        ls \in UNION {[1..n -> RekordboxLines] : n \in 0..MaxRecords}}

\* the cells with a tab between them
RECURSIVE JoinTabs(_)
JoinTabs(cells) ==
    IF cells = <<>> THEN <<>>
    ELSE IF Len(cells) = 1 THEN cells[1]
    ELSE cells[1] \o <<"\t">> \o JoinTabs(Tail(cells))

\* the columns a header of a text file is made of
TxtHeaderFields == <<fName, fArtist, fHash, fRekordboxArtist, fTrackTitle>>

\* a line of as many cells as there are fields
sDataLine == JoinTabs([i \in 1..Len(TxtHeaderFields) |-> <<"x">>])

\* an empty file, a file of two columns no exporter writes, a header of some
\* of the fields above one line of cells, and a tab-separated file with the
\* columns of a Serato export, with and without a name in its first row
OtherTxtFiles ==
    {[kind |-> "txt", exporter |-> "none", lines |-> <<>>],
     [kind |-> "txt", exporter |-> "none",
      lines |-> <<<<"T", "i", "t", "l", "e", "\t", "A", "r", "t", "i", "s", "t">>, <<"T", "\t", "A">>>>]}
    \cup {[kind |-> "txt", exporter |-> "none",
           lines |-> <<JoinTabs(h), sDataLine>>] :
             h \in HeaderChoices(TxtHeaderFields) \ {<<>>}}
    \cup {[kind |-> "txt", exporter |-> "none",
           lines |-> <<JoinTabs(<<fArtist, fName, fStartTime, fEndTime>>),
                       JoinTabs(<<<<"x">>, session_name, session_start, <<>>>>),
                       JoinTabs(<<<<"A">>, <<"T">>, timing.start, timing.end>>)>>] :
             session_name \in SessionNames, session_start \in SessionStarts,
             timing \in FileTimings}
    \cup {[kind |-> "txt", exporter |-> "none",
           lines |-> <<JoinTabs(h), JoinTabs(NumberedCells(h)),
                       JoinTabs(NumberedCells(h))>>] :
             h \in DuplicateHeaders}

Extensions(kind) ==
    IF kind = "csv" THEN {Some(sCsv), Some(<<"C", "S", "V">>)}
    ELSE {Some(sTxt), Some(<<"m", "p", "3">>), Some(<<>>), None}

InitFile ==
    /\ content \in CsvFiles \cup SeratoTxtFiles \cup RekordboxTxtFiles \cup OtherTxtFiles
    /\ \E stem \in {sPlainStem, sDatedStem}, extension \in Extensions(content.kind) :
          file = [stem |-> stem, extension |-> extension]
    /\ lines = <<>>
    /\ header_map = <<>>
    /\ playlist_rows = <<>>
    /\ result = Pending
    /\ file_pc = "new"
    /\ SplitIdle /\ TotalIdle /\ RowIdle /\ MergeIdle /\ NameIdle /\ TrackIdle /\ FormatIdle /\ SaveIdle

\* Playlist::new: the format of the extension picks the reader
PlaylistNew ==
    /\ file_pc = "new"
    /\ LET format == PlaylistFormat(file)
       IN  IF format.tag = "ok"
           THEN /\ file_pc' = IF format.format = "Csv" THEN "read_csv" ELSE "read_txt_lines"
                /\ UNCHANGED result
           ELSE /\ file_pc' = "done"
                /\ result' = format
    /\ UNCHANGED <<file, content, lines, header_map, playlist_rows>>
    /\ UNCHANGED <<splitVars, totalVars, rowVars, mergeVars, nameVars, trackVars, formatVars, saveVars>>

\* Playlist::read_csv: the header map, the rows, and the dialect of the header
ReadCsv ==
    /\ file_pc = "read_csv"
    /\ header_map' = HeaderMap(content.headers)
    /\ playlist_rows' = MapTrackData(content.records, header_map', Len(content.headers))
    /\ LET csv_dialect == CsvDialect(header_map')
       IN  IF csv_dialect.tag = "err"
           THEN file_pc' = "done" /\ result' = csv_dialect
           ELSE /\ file_pc' = IF csv_dialect.tag = "formatted" THEN "read_formatted_csv"
                              ELSE "read_serato_csv"
                /\ UNCHANGED result
    /\ UNCHANGED <<file, content, lines>>
    /\ UNCHANGED <<splitVars, totalVars, rowVars, mergeVars, nameVars, trackVars, formatVars, saveVars>>

\* Playlist::read_txt, the call of read_txt_lines
CallReadTxtLines ==
    /\ file_pc = "read_txt_lines"
    /\ LET read == ReadTxtLines(content.lines)
       IN  IF IsSome(read)
           THEN lines' = read.some /\ file_pc' = "read_txt" /\ UNCHANGED result
           ELSE /\ result' = Panic("initial_lines[1]")
                /\ file_pc' = "done"
                /\ UNCHANGED lines
    /\ UNCHANGED <<file, content, header_map, playlist_rows>>
    /\ UNCHANGED <<splitVars, totalVars, rowVars, mergeVars, nameVars, trackVars, formatVars, saveVars>>

\* some line has no cell at an index of the header map: line[*index] panics
ShortLine(hm, ls) ==
    \E i \in 2..Len(ls) : \E k \in DOMAIN hm : hm[k] >= Len(ls[i])

\* Playlist::read_txt after read_txt_lines: the header map, the rows, and the
\* dialect of the header
ReadTxt ==
    /\ file_pc = "read_txt"
    /\ IF lines = <<>>
       THEN /\ result' = Panic("lines[0]")
            /\ file_pc' = "done"
            /\ UNCHANGED <<header_map, playlist_rows>>
       ELSE /\ header_map' = HeaderMap(lines[1])
            /\ IF ShortLine(header_map', lines)
               THEN /\ result' = Panic("line[*index]")
                    /\ file_pc' = "done"
                    /\ UNCHANGED playlist_rows
               ELSE /\ playlist_rows' = [i \in 1..(Len(lines) - 1) |->
                                            RowOfCells(header_map', lines[i + 1])]
                    /\ LET txt_dialect == TxtDialect(header_map')
                       IN  IF txt_dialect.tag = "err"
                           THEN file_pc' = "done" /\ result' = txt_dialect
                           ELSE /\ file_pc' = IF txt_dialect.tag = "serato"
                                              THEN "read_serato_txt"
                                              ELSE "read_rekordbox_txt"
                                /\ UNCHANGED result
    /\ UNCHANGED <<file, content, lines>>
    /\ UNCHANGED <<splitVars, totalVars, rowVars, mergeVars, nameVars, trackVars, formatVars, saveVars>>

ReadSeratoCsv ==
    /\ file_pc = "read_serato_csv"
    /\ result' = ReadSeratoCsvResult(playlist_rows)
    /\ file_pc' = "done"
    /\ UNCHANGED <<file, content, lines, header_map, playlist_rows>>
    /\ UNCHANGED <<splitVars, totalVars, rowVars, mergeVars, nameVars, trackVars, formatVars, saveVars>>

ReadFormattedCsv ==
    /\ file_pc = "read_formatted_csv"
    /\ result' = ReadFormattedCsvResult(playlist_rows)
    /\ file_pc' = "done"
    /\ UNCHANGED <<file, content, lines, header_map, playlist_rows>>
    /\ UNCHANGED <<splitVars, totalVars, rowVars, mergeVars, nameVars, trackVars, formatVars, saveVars>>

ReadSeratoTxt ==
    /\ file_pc = "read_serato_txt"
    /\ result' = ReadSeratoTxtResult(file.stem, header_map, playlist_rows)
    /\ file_pc' = "done"
    /\ UNCHANGED <<file, content, lines, header_map, playlist_rows>>
    /\ UNCHANGED <<splitVars, totalVars, rowVars, mergeVars, nameVars, trackVars, formatVars, saveVars>>

ReadRekordboxTxt ==
    /\ file_pc = "read_rekordbox_txt"
    /\ result' = ReadRekordboxTxtResult(file.stem, header_map, playlist_rows)
    /\ file_pc' = "done"
    /\ UNCHANGED <<file, content, lines, header_map, playlist_rows>>
    /\ UNCHANGED <<splitVars, totalVars, rowVars, mergeVars, nameVars, trackVars, formatVars, saveVars>>

NextFile ==
    \/ PlaylistNew
    \/ ReadCsv
    \/ CallReadTxtLines
    \/ ReadTxt
    \/ ReadSeratoCsv
    \/ ReadFormattedCsv
    \/ ReadSeratoTxt
    \/ ReadRekordboxTxt

SpecFile == InitFile /\ [][NextFile]_vars

\* the file has a header of a known dialect and no row after it
HeaderOnly ==
    /\ content.exporter # "none"
    /\ \/ content.kind = "csv" /\ content.records = <<>>
       \/ content.kind = "txt" /\ Len(content.lines) = 1
       \/ content.kind = "txt" /\ Len(content.lines) = 2 /\ content.lines[2] = Divider

\* C5: a file that holds a header and no data row is read without a panic, and
\* the playlist read has no tracks and no total duration.
C5_HeaderOnlyFileIsEmptyPlaylist ==
    (file_pc = "done" /\ HeaderOnly /\ PlaylistFormat(file).tag = "ok")
        => /\ result.tag = "ok"
           /\ result.playlist.tracks = <<>>
           /\ result.playlist.total_duration = None

\* the names of the columns of a CSV file
CsvHeaderSet == {content.headers[i] : i \in 1..Len(content.headers)}

\* C11: the header of a CSV file picks the reader: the formatted one when both
\* artist and title are columns (with or without name), else the Serato one
\* when both name and artist are columns, else the file is refused with an
\* error that names the first of name, artist that is no column; nothing else
\* happens, and the outcome is a function of the set of columns.
C11_CsvDialectDetection ==
    [][file_pc = "read_csv" =>
          IF {fArtist, fTitle} \subseteq CsvHeaderSet
          THEN file_pc' = "read_formatted_csv" /\ result' = Pending
          ELSE IF {fName, fArtist} \subseteq CsvHeaderSet
               THEN file_pc' = "read_serato_csv" /\ result' = Pending
               ELSE /\ file_pc' = "done"
                    /\ result'.tag = "err"
                    /\ result'.message = "Serato CSV missing required field"
                    /\ result'.detail = IF fName \notin CsvHeaderSet THEN fName
                                        ELSE fArtist]_vars

\* name, artist and title are columns, and the formatted reader is picked
C11_Witness ==
    /\ content.kind = "csv"
    /\ {fName, fArtist, fTitle} \subseteq CsvHeaderSet
    /\ file_pc = "read_formatted_csv"

\* the names of the columns of a text file, as read_txt finds them
TxtHeaderSet == DOMAIN header_map

\* the call came to the choice of the reader: no index into the lines of the
\* file went out of bounds before it
TxtDialectReached ==
    /\ file_pc = "done"
    /\ content.kind = "txt"
    /\ PlaylistFormat(file).tag = "ok"
    /\ result.tag = "panic" => result.at = "playlist_rows[0]"

\* C12: the header of a text file picks the reader: the Serato one when name
\* is a column, and the file is refused with an error that names artist when
\* artist is no column; else the Rekordbox one when # is a column, and the
\* file is refused with an error that names the first of Artist, Track Title
\* that is no column; else the file is refused as no playlist of either.
\* name goes before #, and a refused file gives no playlist.
C12_TxtDialectDetection ==
    TxtDialectReached =>
        IF fName \in TxtHeaderSet
        THEN IF fArtist \in TxtHeaderSet
             THEN \/ result.tag = "ok" /\ result.playlist.playlist_type = "Serato"
                  \/ result.tag = "panic"
             ELSE /\ result.tag = "err"
                  /\ result.message = "Serato TXT missing required field"
                  /\ result.detail = fArtist
        ELSE IF fHash \in TxtHeaderSet
             THEN IF {fRekordboxArtist, fTrackTitle} \subseteq TxtHeaderSet
                  THEN result.tag = "ok" /\ result.playlist.playlist_type = "Rekordbox"
                  ELSE /\ result.tag = "err"
                       /\ result.message = "Rekordbox TXT missing required field"
                       /\ result.detail = IF fRekordboxArtist \notin TxtHeaderSet
                                          THEN fRekordboxArtist ELSE fTrackTitle
             ELSE /\ result.tag = "err"
                  /\ result.message = "Input file does not seem to be a valid Serato or Rekordbox txt playlist"

\* name, # and the fields of both exporters are columns, and the file is read
\* as a Serato playlist
C12_Witness ==
    /\ TxtDialectReached
    /\ {fName, fArtist, fHash, fRekordboxArtist, fTrackTitle} \subseteq TxtHeaderSet
    /\ result.tag = "ok"
    /\ result.playlist.playlist_type = "Serato"

\* the call ended at the extension of the file name, which is not csv or txt
\* in any case of the letters
ExtensionRefused ==
    /\ file_pc = "done"
    /\ file.extension \notin {Some(sCsv), Some(<<"C", "S", "V">>), Some(sTxt)}

\* what the message of the error is filled in with
FilledIn(text) == \E i \in 1..Len(result.detail) : result.detail[i] = text

SeratoRead ==
    /\ file_pc = "done"
    /\ result.tag = "ok"
    /\ result.playlist.playlist_type = "Serato"

\* the first row, the one that holds the name and the start of the session
FirstRow == playlist_rows[1]

\* the time stamp "10.01.2019, 20.00.00 EET"
SessionStartStamp ==
    NaiveDateTimeNew([year |-> 2019, month |-> 1, day |-> 10],
                     [hour |-> 20, minute |-> 0, second |-> 0])

StartTimeParses == fStartTime \in DOMAIN FirstRow /\ FirstRow[fStartTime] = sSessionStart

\* the dates in the names of the model: "3.2.2018" and "gig 2019.01.10"
DatesInNames ==
    {NaiveDateTimeNew([year |-> 2018, month |-> 2, day |-> 3],
                      [hour |-> 0, minute |-> 0, second |-> 0]),
     NaiveDateTimeNew([year |-> 2019, month |-> 1, day |-> 10],
                      [hour |-> 0, minute |-> 0, second |-> 0])}

\* C15: when the start time of the first row is a time stamp, the date of the
\* playlist is that time stamp, with or without a date in the name; the date
\* of the playlist is a date out of a name only when the start time is absent
\* or no time stamp, and the name of the playlist is not empty.
C15_StartTimeBeforeNameDate ==
    SeratoRead =>
        /\ StartTimeParses => result.playlist.date = Some(SessionStartStamp)
        /\ (IsSome(result.playlist.date) /\ result.playlist.date.some \in DatesInNames)
              => (~StartTimeParses /\ result.playlist.name # <<>>)

\* the name of the session holds a date, the start time is a time stamp, and
\* the date of the playlist is the time stamp
C15_Witness ==
    /\ SeratoRead
    /\ StartTimeParses
    /\ FirstRow[fName] = sDatedName
    /\ result.playlist.name = sDatedName
    /\ result.playlist.date = Some(SessionStartStamp)

\* a playlist was read, and the file gave it no name: a Rekordbox export has
\* no row for one, in the others the first row has no name or an empty one
NoStructuredName ==
    /\ file_pc = "done"
    /\ result.tag = "ok"
    /\ \/ result.playlist.playlist_type = "Rekordbox"
       \/ fName \notin DOMAIN FirstRow
       \/ FirstRow[fName] = <<>>

\* C18: a playlist that the file gave no name is named by the stem of the
\* file name, whatever the dialect, CSV or text.
C18_UnnamedPlaylistTakesStem ==
    NoStructuredName => result.playlist.name = file.stem

\* the day of a time of a track, where the track has the time
OnDay(time, day) == IsSome(time) => time.some.date = day

\* C19: when the playlist that is returned has a date, every start time and
\* every end time of its tracks is on the day of that date.
C19_TrackTimesOnPlaylistDate ==
    (file_pc = "done" /\ result.tag = "ok" /\ IsSome(result.playlist.date)) =>
        \A i \in 1..Len(result.playlist.tracks) :
            /\ OnDay(result.playlist.tracks[i].start_time, result.playlist.date.some.date)
            /\ OnDay(result.playlist.tracks[i].end_time, result.playlist.date.some.date)

\* a Rekordbox text playlist was read
RekordboxRead ==
    /\ file_pc = "done"
    /\ result.tag = "ok"
    /\ result.playlist.playlist_type = "Rekordbox"

\* 2019-01-10 00:00:00, the date in the stem "gig 2019.01.10"
StemDate ==
    NaiveDateTimeNew([year |-> 2019, month |-> 1, day |-> 10], Midnight)

\* C23: the date of a Rekordbox text playlist is what the name scan gives for
\* the stem of the file (2019-01-10 00:00:00 for "gig 2019.01.10", None for
\* "set"), every track has no start time, no end time and no play time, and
\* the total duration is None.
C23_RekordboxHasNameDateAndNoTimes ==
    RekordboxRead =>
        /\ result.playlist.date = ExtractDatetimeFromName(file.stem)
        /\ file.stem = sDatedStem => result.playlist.date = Some(StemDate)
        /\ file.stem = sPlainStem => result.playlist.date = None
        /\ \A i \in 1..Len(result.playlist.tracks) :
              /\ result.playlist.tracks[i].start_time = None
              /\ result.playlist.tracks[i].end_time = None
              /\ result.playlist.tracks[i].play_time = None
        /\ result.playlist.total_duration = None

C23_Witness ==
    /\ RekordboxRead
    /\ file.stem = sDatedStem
    /\ result.playlist.date = Some(StemDate)
    /\ Len(result.playlist.tracks) = 2
    /\ result.playlist.total_duration = None

\* the column names the header map was made of, once it has been made
HeaderMapped ==
    /\ file_pc \notin {"new", "read_csv", "read_txt_lines", "read_txt"}
    /\ ~ExtensionRefused
    /\ result.tag = "panic" => result.at \notin {"initial_lines[1]", "lines[0]"}

HeaderNames == IF content.kind = "csv" THEN content.headers ELSE lines[1]

HasDuplicate(names) ==
    \E i, j \in 1..Len(names) : i < j /\ names[i] = names[j]

\* C24: the header map has exactly the column names as its keys, and each
\* name is mapped to the 0-based index of the last column of that name; a
\* name that occurs twice is no error.
C24_HeaderMapLastWins ==
    HeaderMapped =>
        /\ DOMAIN header_map = {HeaderNames[i] : i \in 1..Len(HeaderNames)}
        /\ \A i \in 1..Len(HeaderNames) :
              /\ header_map[HeaderNames[i]] >= i - 1
              /\ HeaderNames[header_map[HeaderNames[i]] + 1] = HeaderNames[i]

C24_Witness ==
    /\ HeaderMapped
    /\ file_pc = "done"
    /\ result.tag = "ok"
    /\ HeaderNames = <<fName, fArtist, fName>>
    /\ header_map[fName] = 2
    /\ header_map[fArtist] = 1

\* C26: while the rows are merged, and when they all are, the play times of
\* the accumulated tracks add up to what the present play times of the rows
\* taken so far add up to; the total duration of the merged tracks is the one
\* of the tracks before the merge.
C26_MergeConservesPlayTime ==
    (dialect = "serato" /\ merge_pc \in {"merge", "done"}) =>
        /\ PresentSum(deduped_tracks, Len(deduped_tracks))
              = PresentSum(initial_tracks, merge_no - 1)
        /\ merge_pc = "done" =>
              GetTotalPlaytime(deduped_tracks) = GetTotalPlaytime(initial_tracks)

\* two of three rows are taken, the second was merged into the first, and
\* both had a play time
C26_Witness ==
    /\ dialect = "serato"
    /\ merge_pc = "merge"
    /\ merge_no = 3
    /\ Len(initial_tracks) = 3
    /\ Len(deduped_tracks) = 1
    /\ IsSome(initial_tracks[1].play_time)
    /\ IsSome(initial_tracks[2].play_time)
    /\ initial_tracks[2].play_time.some > 0
    /\ deduped_tracks[1].play_time
          = Some(initial_tracks[1].play_time.some + initial_tracks[2].play_time.some)

\* a formatted CSV playlist was read
FormattedRead ==
    /\ file_pc = "done"
    /\ result.tag = "ok"
    /\ result.playlist.playlist_type = "Formatted"

\* the artist and the title of every data row of the file
FormattedRowKeys ==
    [i \in 1..Len(playlist_rows) |->
        <<playlist_rows[i][fArtist], playlist_rows[i][fTitle]>>]

\* C29: the tracks of a formatted CSV playlist are the data rows of the file,
\* the first one included, with the artist of the column artist and the title
\* of the column title, the immediate repeats merged.
C29_FormattedRowsBecomeTracks ==
    FormattedRead =>
        KeysOf(result.playlist.tracks) = WithoutRepeats(FormattedRowKeys)

(***************************************************************************)
(* The operators of Track (track.rs) called on their own: a track, a       *)
(* second track and an optional duration are drawn, and each operator is   *)
(* applied to them.  Names differ in case only ("Aphex"/"aphex") so that a *)
(* comparison that folded case would show.                                 *)
(***************************************************************************)
sAphex == <<"A", "p", "h", "e", "x">>
saphex == <<"a", "p", "h", "e", "x">>
sBicep == <<"B", "i", "c", "e", "p">>
sGlue == <<"G", "l", "u", "e">>
sglue == <<"g", "l", "u", "e">>

OpArtists == {sAphex, saphex, sBicep}
OpTitles == {sGlue, sglue}

OpTimes ==
    {None,
     Some(NaiveDateTimeNew([year |-> 2018, month |-> 2, day |-> 3],
                           [hour |-> 20, minute |-> 0, second |-> 0])),
     Some(NaiveDateTimeNew([year |-> 2018, month |-> 2, day |-> 3],
                           [hour |-> 20, minute |-> 4, second |-> 30]))}

\* TimeDelta values, in seconds
OpDurations == {None, Some(0), Some(90), Some(270)}

OpTracks ==
    {NewWithTime(artist, title, start_time, end_time, play_time) :
        artist \in OpArtists, title \in OpTitles,
        start_time \in {None, Some(NaiveDateTimeNew(DefaultDate,
                            [hour |-> 0, minute |-> 0, second |-> 0]))},
        end_time \in OpTimes, play_time \in OpDurations}

OpOthers ==
    {NewWithTime(artist, title, None, end_time, play_time) :
        artist \in OpArtists, title \in OpTitles,
        end_time \in {None}, play_time \in {None, Some(90)}}

InitTrack ==
    /\ SplitIdle /\ TotalIdle /\ RowIdle /\ MergeIdle /\ FileIdle /\ NameIdle /\ FormatIdle /\ SaveIdle
    /\ op_self \in OpTracks
    /\ op_other \in OpOthers
    /\ op_duration \in OpDurations
    /\ op_result = <<>>
    /\ op_pc = "call"

\* track + duration
CallAdd ==
    /\ op_pc = "call"
    /\ op_result' = AddOption(op_self, op_duration)
    /\ op_pc' = "add"
    /\ UNCHANGED <<op_self, op_other, op_duration>>
    /\ UNCHANGED <<splitVars, totalVars, rowVars, mergeVars, fileVars, nameVars, formatVars, saveVars>>

\* track += duration
CallAddAssign ==
    /\ op_pc = "call"
    /\ op_result' = AddAssignOption(op_self, op_duration)
    /\ op_pc' = "add_assign"
    /\ UNCHANGED <<op_self, op_other, op_duration>>
    /\ UNCHANGED <<splitVars, totalVars, rowVars, mergeVars, fileVars, nameVars, formatVars, saveVars>>

\* track == other
CallEq ==
    /\ op_pc = "call"
    /\ op_result' = TrackEq(op_self, op_other)
    /\ op_pc' = "eq"
    /\ UNCHANGED <<op_self, op_other, op_duration>>
    /\ UNCHANGED <<splitVars, totalVars, rowVars, mergeVars, fileVars, nameVars, formatVars, saveVars>>

NextTrack == CallAdd \/ CallAddAssign \/ CallEq

SpecTrack == InitTrack /\ [][NextTrack]_vars

\* C21: after track + d and after track += d the play time is None when
\* both the play time and d were None, Some(x) when only d = Some(x) was
\* present, Some(y) when only the play time Some(y) was present, and
\* Some(y + x) when both were present.
C21_AddOptionalDuration ==
    op_pc \in {"add", "add_assign"} =>
        /\ (~IsSome(op_self.play_time) /\ ~IsSome(op_duration))
               => op_result.play_time = None
        /\ (~IsSome(op_self.play_time) /\ IsSome(op_duration))
               => op_result.play_time = Some(op_duration.some)
        /\ (IsSome(op_self.play_time) /\ ~IsSome(op_duration))
               => op_result.play_time = Some(op_self.play_time.some)
        /\ (IsSome(op_self.play_time) /\ IsSome(op_duration))
               => op_result.play_time
                      = Some(op_self.play_time.some + op_duration.some)

C21_Witness ==
    /\ op_pc = "add"
    /\ op_self.play_time = Some(270)
    /\ op_duration = None
    /\ op_result.play_time = Some(270)

\* C22: track == other is true exactly when the artists are the same string
\* and the titles are the same string, letter case included; the start
\* time, the end time and the play time have no part in it.
C22_EqualityIsArtistAndTitle ==
    op_pc = "eq" =>
        (op_result = TRUE <=>
            (op_self.artist = op_other.artist /\ op_self.title = op_other.title))

C22_Witness ==
    /\ op_pc = "eq"
    /\ op_result = TRUE
    /\ op_self.play_time # op_other.play_time
    /\ op_self.start_time # op_other.start_time
    /\ op_self.end_time # op_other.end_time

(***************************************************************************)
(* FileFormat::from_str (types.rs) called on its own.  The input is a word *)
(* with white space around it: "csv" and "txt" in every letter casing,     *)
(* the empty word, and words that are no format.                           *)
(***************************************************************************)
CsvCasings ==
    {<<c, s, v>> : c \in {"c", "C"}, s \in {"s", "S"}, v \in {"v", "V"}}

TxtCasings ==
    {<<t, x, u>> : t \in {"t", "T"}, x \in {"x", "X"}, u \in {"t", "T"}}

OtherWords ==
    {<<"m", "p", "3">>, <<"M", "P", "3">>, <<"c", "s">>, <<"c", "s", "v", "t">>,
     <<"c", " ", "s", "v">>, <<"t", "x", "t", ".", "c", "s", "v">>}

FormatWords == CsvCasings \cup TxtCasings \cup OtherWords \cup {<<>>}

\* the white space before the word and the white space after it
FormatPads ==
    {<<before, after>> : before \in {<<>>, <<" ">>, <<"\t">>},
                         after \in {<<>>, <<" ">>, <<" ", "\n">>}}

InitFormat ==
    /\ SplitIdle /\ TotalIdle /\ RowIdle /\ MergeIdle /\ FileIdle /\ NameIdle /\ TrackIdle /\ SaveIdle
    /\ fmt_word \in FormatWords
    /\ fmt_pad \in FormatPads
    /\ fmt_input = fmt_pad[1] \o fmt_word \o fmt_pad[2]
    /\ fmt_result = Pending
    /\ fmt_pc = "call"

\* FileFormat::from_str(input)
FromStr ==
    /\ fmt_pc = "call"
    /\ fmt_result' = FileFormatFromStr(fmt_input)
    /\ fmt_pc' = "done"
    /\ UNCHANGED <<fmt_word, fmt_pad, fmt_input>>
    /\ UNCHANGED <<splitVars, totalVars, rowVars, mergeVars, fileVars, nameVars, trackVars, saveVars>>

NextFormat == FromStr

SpecFormat == InitFormat /\ [][NextFormat]_vars

\* C25: an input that is "csv" in any letter casing, with or without white
\* space around it, gives Csv, and "txt" likewise gives Txt; an input that is
\* empty or white space only fails with "Can't convert empty string to file
\* format"; every other input fails with "Unsupported file format: '<input>'"
\* filled in with the input as it was given.
C25_FileFormatFromStr ==
    fmt_pc = "done" =>
        /\ fmt_word \in CsvCasings => fmt_result = [tag |-> "ok", format |-> "Csv"]
        /\ fmt_word \in TxtCasings => fmt_result = [tag |-> "ok", format |-> "Txt"]
        /\ fmt_word = <<>> =>
              /\ fmt_result.tag = "err"
              /\ fmt_result.message = "Can't convert empty string to file format"
        /\ fmt_word \in OtherWords =>
              /\ fmt_result.tag = "err"
              /\ fmt_result.message = "Unsupported file format: '{input}'"
              /\ fmt_result.detail = <<fmt_input>>

C25_Witness ==
    /\ fmt_pc = "done"
    /\ fmt_input = <<" ", "C", "s", "V", " ", "\n">>
    /\ fmt_result = [tag |-> "ok", format |-> "Csv"]

(***************************************************************************)
(* Playlist::save_playlist_to_file (playlist.rs).  The disk is a function  *)
(* from the paths that exist to what is there: a file with its data, or a  *)
(* directory.  Paths are names in one directory.                           *)
(***************************************************************************)
sXlsx == <<"x", "l", "s", "x">>

OldFile == [kind |-> "file", data |-> <<"o", "l", "d">>]
Directory == [kind |-> "dir", data |-> <<>>]

\* the file the writers leave at the path
WrittenFile(extension) == [kind |-> "file", data |-> extension]

\* Path::is_file
IsFile(fs, p) == p \in DOMAIN fs /\ fs[p].kind = "file"

\* Path::extension of a name: what follows the last dot, if that dot is not
\* the first character
Extension(p) ==
    LET dots == {i \in 1..Len(p) : p[i] = "."}
    IN  IF dots = {} THEN None
        ELSE LET last == CHOOSE i \in dots : \A j \in dots : j <= i
             IN  IF last = 1 THEN None ELSE Some(SubSeq(p, last + 1, Len(p)))

\* OutputFormat::from_str(ext).is_ok()
OutputFormatIsOk(ext) == Trim(ToLowercase(ext)) \in {sCsv, sTxt, sXlsx}

\* utils::append_extension_to_path
AppendExtensionToPath(p, extension) == p \o <<".">> \o extension

\* Playlist::get_output_file_path; the default save directory is the one the
\* paths are in
GetOutputFilePath(file_path, filepath) ==
    LET trimmed == IF IsSome(filepath) THEN Trim(filepath.some) ELSE <<>>
    IN  IF ~IsSome(filepath) \/ trimmed = <<>> THEN file_path
        ELSE IF IsSome(Extension(trimmed)) /\ OutputFormatIsOk(Extension(trimmed).some)
             THEN trimmed
             ELSE AppendExtensionToPath(trimmed, sCsv)

\* mutant: the file is kept when it may be overwritten
MustRefuseInverted(fs, p, overwrite_existing) == IsFile(fs, p) /\ overwrite_existing

\* if path.is_file() { if !overwrite_existing { .. bail!(..) } }
MustRefuse(fs, p, overwrite_existing) == IsFile(fs, p) /\ ~overwrite_existing

\* the rest of save_playlist_to_file: the extension, and the writer for it
WriteResult(fs, p) ==
    IF ~IsSome(Extension(p)) THEN Err("Output file has no extension", <<>>)
    ELSE IF ToLowercase(Extension(p).some) \notin {sCsv, sTxt, sXlsx}
    THEN Err("Unsupported file extension", <<>>)
    ELSE IF p \in DOMAIN fs /\ fs[p].kind = "dir"
    THEN Err("io", <<p>>)
    ELSE [tag |-> "ok"]

\* the disk after the writer has run
Written(fs, p) ==
    IF WriteResult(fs, p).tag = "ok"
    THEN (p :> WrittenFile(ToLowercase(Extension(p).some))) @@ fs
    ELSE fs

sSetCsv == <<"s", "e", "t", ".", "c", "s", "v">>
sSetTxt == <<"s", "e", "t", ".", "T", "X", "T">>
sOut == <<"o", "u", "t">>
sOutCsv == <<"o", "u", "t", ".", "c", "s", "v">>
sOutXlsx == <<"o", "u", "t", ".", "X", "L", "S", "X">>
sOutMp3 == <<"o", "u", "t", ".", "m", "p", "3">>
sOutSpaceCsv == <<"o", "u", "t", ".", " ", "c", "s", "v">>

\* the output paths that are asked for
Filepaths ==
    {None, Some(<<>>), Some(<<" ", " ">>), Some(sOut), Some(sOutCsv),
     Some(<<" ">> \o sOutCsv \o <<" ">>), Some(sOutXlsx), Some(sOutMp3),
     Some(sOutSpaceCsv)}

\* the paths that may be there before the call
DiskPaths == {sSetCsv, sOutCsv, sOutXlsx, AppendExtensionToPath(sOutMp3, sCsv)}

Disks ==
    UNION {[paths -> {OldFile, Directory}] : paths \in SUBSET DiskPaths}

InitSave ==
    /\ SplitIdle /\ TotalIdle /\ RowIdle /\ MergeIdle /\ FileIdle /\ NameIdle /\ TrackIdle /\ FormatIdle
    /\ save_fs \in Disks
    /\ save_file \in {sSetCsv, sSetTxt}
    /\ save_filepath \in Filepaths
    /\ save_overwrite \in BOOLEAN
    /\ save_path = <<>>
    /\ save_result = Pending
    /\ save_pc = "call"

\* let path = self.get_output_file_path(filepath);
OutputFilePath ==
    /\ save_pc = "call"
    /\ save_path' = GetOutputFilePath(save_file, save_filepath)
    /\ save_pc' = "check"
    /\ UNCHANGED <<save_fs, save_file, save_filepath, save_overwrite, save_result>>
    /\ UNCHANGED <<splitVars, totalVars, rowVars, mergeVars, fileVars, nameVars, trackVars, formatVars>>

\* the output file is there and may not be overwritten: bail!
RefuseExisting ==
    /\ save_pc = "check"
    /\ MustRefuse(save_fs, save_path, save_overwrite)
    /\ save_result' = Err("use the {} option overwrite an existing output file",
                          <<"force">>)
    /\ save_pc' = "done"
    /\ UNCHANGED <<save_fs, save_file, save_filepath, save_overwrite, save_path>>
    /\ UNCHANGED <<splitVars, totalVars, rowVars, mergeVars, fileVars, nameVars, trackVars, formatVars>>

\* the writer of the extension is called
WriteFile ==
    /\ save_pc = "check"
    /\ ~MustRefuse(save_fs, save_path, save_overwrite)
    /\ save_result' = WriteResult(save_fs, save_path)
    /\ save_fs' = Written(save_fs, save_path)
    /\ save_pc' = "done"
    /\ UNCHANGED <<save_file, save_filepath, save_overwrite, save_path>>
    /\ UNCHANGED <<splitVars, totalVars, rowVars, mergeVars, fileVars, nameVars, trackVars, formatVars>>

NextSave == OutputFilePath \/ RefuseExisting \/ WriteFile

SpecSave == InitSave /\ [][NextSave]_vars

\* C30: without overwrite_existing no step of save_playlist_to_file changes
\* or removes a file that is on the disk, and the call whose output path is
\* a file on the disk ends in an error.
C30_NoOverwriteUnlessForced ==
    [][~save_overwrite =>
          /\ \A p \in DOMAIN save_fs :
                save_fs[p].kind = "file" =>
                    (p \in DOMAIN save_fs' /\ save_fs'[p] = save_fs[p])
          /\ (save_pc' = "done" /\ IsFile(save_fs, save_path)) =>
                save_result'.tag = "err"]_vars

\* "out" was asked for, out.csv is a file on the disk: the call is refused
\* and the file is as it was
C30_Witness ==
    /\ save_pc = "done"
    /\ ~save_overwrite
    /\ save_filepath = Some(sOut)
    /\ save_path = sOutCsv
    /\ save_result.tag = "err"
    /\ save_result.detail = <<"force">>
    /\ save_fs[sOutCsv] = OldFile

====
